---- MODULE Spec2Model ----
(***************************************************************************)
(* A model of rlox, a tree-walking Lox interpreter: the resolver           *)
(* (src/src/resolver.rs), the environment chain (src/src/environment.rs),  *)
(* functions, classes and instances (function.rs, class.rs, instance.rs),  *)
(* the interpreter (src/src/interpreter.rs) and the driver (src/src/lib.rs)*)
(*                                                                         *)
(* The interpreter is recursive in the source.  Here it is a machine with  *)
(* an explicit control (ctrl: what is being visited, or the Result that a  *)
(* visit returned) and an explicit stack of pending Rust frames (kont).    *)
(* Rc<RefCell<Environment>> is an index into envs, Rc<RefCell<Object>> an  *)
(* index into cells; a RefCell borrow that a Rust frame holds while it     *)
(* waits is read off the frames of kont.                                   *)
(***************************************************************************)
EXTENDS Integers, Sequences, FiniteSets, TLC

VARIABLES
    pc,                 \* position in lib.rs run(): "parse", "resolve", "interpret",
                        \* "done", "panicked"
    tokens,             \* Vec<Token> returned by scan_tokens
    current,            \* Parser.current
    reported,           \* the messages printed by report() and lox_error
    stmts,              \* Vec<Stmt> returned by the parser
    had_error,          \* *had_error of run()
    had_runtime_error,  \* *_had_runtime_error of run()
    locals,             \* Interpreter.locals : HashMap<Expr, usize>
    envs,               \* heap of Environment values (Rc<RefCell<Environment>>)
    cells,              \* heap of Object values (Rc<RefCell<Object>>)
    environment,        \* Interpreter.environment
    idx,                \* position of Interpreter::interpret in stmts
    ctrl,               \* what is visited now, or the result just returned
    kont,               \* the pending Rust frames, innermost last
    output              \* what has been written to Interpreter.writer

\* what lib.rs run() holds while the interpreter works
run == <<pc, tokens, current, reported, stmts, had_error, had_runtime_error, locals>>

vars == <<pc, tokens, current, reported, stmts, had_error, had_runtime_error, locals, envs, cells,
          environment, idx, ctrl, kont, output>>

(***************************************************************************)
(* Bounds of the explored programs.                                        *)
(***************************************************************************)
MaxDepth == 2
MaxCalls == 2

(***************************************************************************)
(* Tokens (token.rs) and the AST (ast.rs, parser.rs).                      *)
(***************************************************************************)
\* Option::None, for Option<Box<Stmt>>, Option<Expr>, Option<Object> and
\* Option<Rc<..>> fields
None == [kind |-> "None"]

Token(token_type, lexeme, literal, line, position) ==
    [token_type |-> token_type, lexeme |-> lexeme, literal |-> literal,
     line |-> line, position |-> position]

NumberObj(n) == [tag |-> "Number", n |-> n]
StringObj(s) == [tag |-> "String", s |-> s]
BoolObj(b) == [tag |-> "Bool", b |-> b]
NilObj == [tag |-> "Nil"]
NativeFunctionObj(arity) == [tag |-> "NativeFunction", arity |-> arity]
FunctionObj(f) == [tag |-> "Function", f |-> f]
ClassObj(c) == [tag |-> "Class", c |-> c]
InstanceObj(i) == [tag |-> "Instance", i |-> i]

Assign(name, value) == [kind |-> "Assign", name |-> name, value |-> value]
Binary(left, operator, right) ==
    [kind |-> "Binary", left |-> left, operator |-> operator, right |-> right]
Call(callee, paren, arguments) ==
    [kind |-> "Call", callee |-> callee, paren |-> paren, arguments |-> arguments]
Get(object, name) == [kind |-> "Get", object |-> object, name |-> name]
Grouping(expression) == [kind |-> "Grouping", expression |-> expression]
Literal(value) == [kind |-> "Literal", value |-> value]
Logical(left, operator, right) ==
    [kind |-> "Logical", left |-> left, operator |-> operator, right |-> right]
Set(object, name, value) ==
    [kind |-> "Set", object |-> object, name |-> name, value |-> value]
This(keyword) == [kind |-> "This", keyword |-> keyword]
Unary(operator, right) == [kind |-> "Unary", operator |-> operator, right |-> right]
Variable(name) == [kind |-> "Variable", name |-> name]

StmtBlock(statements) == [kind |-> "Block", statements |-> statements]
StmtClass(name, methods) ==
    [kind |-> "Class", name |-> name, superclass |-> None, methods |-> methods]
StmtExpr(e) == [kind |-> "Expr", e |-> e]
StmtFunction(name, params, body) ==
    [kind |-> "Function", name |-> name, params |-> params, body |-> body]
StmtIf(condition, then_branch, else_branch) ==
    [kind |-> "If", condition |-> condition, then_branch |-> then_branch,
     else_branch |-> else_branch]
StmtPrint(e) == [kind |-> "Print", e |-> e]
StmtReturn(keyword, value) == [kind |-> "Return", keyword |-> keyword, value |-> value]
StmtVar(name, initializer) == [kind |-> "Var", name |-> name, initializer |-> initializer]
StmtWhile(condition, body) == [kind |-> "While", condition |-> condition, body |-> body]

(***************************************************************************)
(* Scanner (scanner.rs), word by word.  A source text is one line of       *)
(* words, one space between two words.  Each word becomes the token that   *)
(* scan_single_token builds for it; position is Scanner.offset when the    *)
(* token is added: advance() adds one to it for each character, and        *)
(* matches(), which takes the second character of != == <= >=, does not.   *)
(***************************************************************************)
Punctuation ==
    ("(" :> "LeftParen") @@ (")" :> "RightParen") @@ ("{" :> "LeftBrace")
    @@ ("}" :> "RightBrace") @@ ("," :> "Comma") @@ ("." :> "Dot")
    @@ ("-" :> "Minus") @@ ("+" :> "Plus") @@ (";" :> "Semicolon")
    @@ ("*" :> "Star") @@ ("/" :> "Slash")
    @@ ("!" :> "Bang") @@ ("!=" :> "BangEqual") @@ ("=" :> "Equal")
    @@ ("==" :> "EqualEqual") @@ ("<" :> "Less") @@ ("<=" :> "LessEqual")
    @@ (">" :> "Greater") @@ (">=" :> "GreaterEqual")

Keywords ==
    ("and" :> "And") @@ ("class" :> "Class") @@ ("else" :> "Else")
    @@ ("false" :> "False") @@ ("for" :> "For") @@ ("fun" :> "Fun")
    @@ ("if" :> "If") @@ ("nil" :> "Nil") @@ ("or" :> "Or")
    @@ ("print" :> "Print") @@ ("return" :> "Return") @@ ("super" :> "Super")
    @@ ("this" :> "This") @@ ("true" :> "True") @@ ("var" :> "Var")
    @@ ("while" :> "While")

\* the number literals and the string literals of the explored sources,
\* with the value that number() and string() parse out of each
Numbers ==
    ("0" :> 0) @@ ("1" :> 1) @@ ("2" :> 2) @@ ("3" :> 3) @@ ("4" :> 4) @@ ("5" :> 5)

Strings ==
    ("\"global\"" :> "global") @@ ("\"local\"" :> "local") @@ ("\"a\"" :> "a")
    @@ ("\"no\"" :> "no") @@ ("\"rich\"" :> "rich") @@ ("\"\"" :> "")

\* what advance() and matches() add to Scanner.offset over one word
Width(word) == IF word \in {"!=", "==", "<=", ">="} THEN 1 ELSE Len(word)

\* the characters that advance() counts over the words lo..hi
RECURSIVE Advanced(_, _, _)
Advanced(words, lo, hi) ==
    IF lo > hi THEN 0
    ELSE IF lo = hi THEN Width(words[lo])
    ELSE LET mid == (lo + hi) \div 2 IN
         Advanced(words, lo, mid) + Advanced(words, mid + 1, hi)

\* Scanner.offset after word i: its characters, and the spaces between
OffsetAfter(words, i) == Advanced(words, 1, i) + (IF i > 1 THEN i - 1 ELSE 0)

add_token(words, i) ==
    LET text == words[i]
        position == OffsetAfter(words, i)
    IN  IF text \in DOMAIN Punctuation THEN Token(Punctuation[text], text, None, 1, position)
        ELSE IF text \in DOMAIN Keywords THEN Token(Keywords[text], text, None, 1, position)
        ELSE IF text \in DOMAIN Numbers
             THEN Token("Number", text, NumberObj(Numbers[text]), 1, position)
        ELSE IF text \in DOMAIN Strings
             THEN Token("String", text, StringObj(Strings[text]), 1, position)
        ELSE Token("Identifier", text, None, 1, position)

scan_tokens(words) ==
    [i \in 1..Len(words) |-> add_token(words, i)]
    \o <<Token("Eof", "", None, 1, OffsetAfter(words, Len(words)))>>

(***************************************************************************)
(* Scanner (scanner.rs), character by character.  A source is the sequence *)
(* of its characters (code points); a character of more than one byte in   *)
(* UTF-8 is written by its code point.  The Scanner is                     *)
(* [source, tokens, start, current, line, offset, reported, panicked]:     *)
(* reported holds the messages of error(), and panicked is set by an       *)
(* unwrap() of None or by a slice that String refuses.                     *)
(***************************************************************************)
\* char::len_utf8
len_utf8(c) == IF c = "U+00E9" THEN 2 ELSE 1

\* String::len of the first n characters: bytes, not characters
RECURSIVE ByteLen(_, _)
ByteLen(source, n) ==
    IF n = 0 THEN 0 ELSE ByteLen(source, n - 1) + len_utf8(source[n])

\* String::is_char_boundary
is_char_boundary(source, index) ==
    \E n \in 0..Len(source) : ByteLen(source, n) = index

\* the number of characters before a byte index that is a boundary
CharsBefore(source, index) ==
    CHOOSE n \in 0..Len(source) : ByteLen(source, n) = index

\* &source[from..to]: the characters, or a panic
Slice(source, from, to) ==
    IF from <= to /\ is_char_boundary(source, from) /\ is_char_boundary(source, to)
    THEN [ok |-> TRUE,
          text |-> SubSeq(source, CharsBefore(source, from) + 1, CharsBefore(source, to))]
    ELSE [ok |-> FALSE, text |-> <<>>]

\* the String of a sequence of characters
RECURSIVE Text(_)
Text(chars) == IF chars = <<>> THEN "" ELSE Head(chars) \o Text(Tail(chars))

\* str::parse::<f32> of a numeral: its value, for the numerals of the
\* table, and the numeral itself for the others
ParseNumber(text) == IF text \in DOMAIN Numbers THEN Numbers[text] ELSE text

NUL == "U+0000"

Digits == {"0", "1", "2", "3", "4", "5", "6", "7", "8", "9"}

\* char::is_ascii_alphabetic of the characters explored, and '_'
Alphabetic == {"a", "o", "r", "_", "t", "h", "i", "s"}

NewScanner(source) ==
    [source |-> source, tokens |-> <<>>, start |-> 0, current |-> 0, line |-> 1,
     offset |-> 0, reported |-> <<>>, panicked |-> FALSE]

ScannerPanic(S) == [S EXCEPT !.panicked = TRUE]

ScannerIsAtEnd(S) == S.current >= ByteLen(S.source, Len(S.source))

\* self.source.chars().nth(n) is Some
HasNth(S, n) == n < Len(S.source)

\* advance(): the scanner afterwards; the character taken is Taken(S)
Taken(S) == S.source[S.current + 1]

\* advance() that leaves Scanner.offset alone
ScannerAdvanceInPlace(S) ==
    IF S.panicked \/ ~HasNth(S, S.current) THEN ScannerPanic(S)
    ELSE [S EXCEPT !.current = @ + 1]

ScannerAdvance(S) ==
    IF S.panicked \/ ~HasNth(S, S.current) THEN ScannerPanic(S)
    ELSE [S EXCEPT !.current = @ + 1, !.offset = @ + 1]

\* peek(): [ok, c]
ScannerPeek(S) ==
    IF ScannerIsAtEnd(S) THEN [ok |-> TRUE, c |-> NUL]
    ELSE IF HasNth(S, S.current) THEN [ok |-> TRUE, c |-> S.source[S.current + 1]]
    ELSE [ok |-> FALSE, c |-> NUL]

\* peek_next(): [ok, c]
ScannerPeekNext(S) ==
    IF S.current + 1 >= ByteLen(S.source, Len(S.source)) THEN [ok |-> TRUE, c |-> NUL]
    ELSE IF HasNth(S, S.current + 1) THEN [ok |-> TRUE, c |-> S.source[S.current + 2]]
    ELSE [ok |-> FALSE, c |-> NUL]

\* matches(expected): [ok, matched, S]
ScannerMatches(S, expected) ==
    IF ScannerIsAtEnd(S) THEN [ok |-> TRUE, matched |-> FALSE, S |-> S]
    ELSE IF ~HasNth(S, S.current) THEN [ok |-> FALSE, matched |-> FALSE, S |-> S]
    ELSE IF S.source[S.current + 1] # expected THEN [ok |-> TRUE, matched |-> FALSE, S |-> S]
    ELSE [ok |-> TRUE, matched |-> TRUE, S |-> [S EXCEPT !.current = @ + 1]]

\* add_token_with_literal; literal(text) is None for add_token
ScannerAddToken(S, token_type, literal) ==
    LET text == Slice(S.source, S.start, S.current) IN
    IF ~text.ok THEN ScannerPanic(S)
    ELSE [S EXCEPT !.tokens =
              Append(@, Token(token_type, Text(text.text), literal, S.line, S.offset))]

\* error(line, message), error.rs
ScannerError(S, message) == [S EXCEPT !.reported = Append(@, message)]

\* the token of one or of two characters
OneOrTwo(S, second, two, one) ==
    LET m == ScannerMatches(S, second) IN
    IF ~m.ok THEN ScannerPanic(S)
    ELSE ScannerAddToken(m.S, IF m.matched THEN two ELSE one, None)

\* while self.peek() != '\n' && !self.is_at_end() { self.advance(); }
RECURSIVE CommentLoop(_)
CommentLoop(S) ==
    LET p == ScannerPeek(S) IN
    IF ~p.ok THEN ScannerPanic(S)
    ELSE IF p.c # "\n" /\ ~ScannerIsAtEnd(S) THEN CommentLoop(ScannerAdvance(S))
    ELSE S

\* the loop of string()
RECURSIVE StringLoop(_)
StringLoop(S) ==
    LET p == ScannerPeek(S) IN
    IF ~p.ok THEN ScannerPanic(S)
    ELSE IF p.c # "\"" /\ ~ScannerIsAtEnd(S)
         THEN StringLoop(ScannerAdvance(
                  IF p.c = "\n" THEN [S EXCEPT !.line = @ + 1] ELSE S))
         ELSE S

ScannerString(S) ==
    LET S1 == StringLoop(S)
        S2 == ScannerAdvance(S1)
        value == Slice(S2.source, S2.start + 1, S2.current - 1)
    IN  IF S1.panicked THEN S1
        ELSE IF ScannerIsAtEnd(S1) THEN ScannerError(S1, "Unterminated string.")
        ELSE IF S2.panicked THEN S2
        ELSE IF ~value.ok THEN ScannerPanic(S2)
        ELSE ScannerAddToken(S2, "String", StringObj(Text(value.text)))

\* while self.peek().is_digit(10) { self.advance(); }
RECURSIVE DigitsLoop(_)
DigitsLoop(S) ==
    LET p == ScannerPeek(S) IN
    IF ~p.ok THEN ScannerPanic(S)
    ELSE IF p.c \in Digits THEN DigitsLoop(ScannerAdvance(S))
    ELSE S

ScannerNumber(S) ==
    LET S1 == DigitsLoop(S)
        p == ScannerPeek(S1)
        n == ScannerPeekNext(S1)
        S2 == IF p.c = "." /\ n.ok /\ n.c \in Digits
              THEN DigitsLoop(ScannerAdvance(S1)) ELSE S1
        text == Slice(S2.source, S2.start, S2.current)
    IN  IF S1.panicked THEN S1
        ELSE IF p.c = "." /\ ~n.ok THEN ScannerPanic(S1)
        ELSE IF S2.panicked THEN S2
        ELSE IF ~text.ok THEN ScannerPanic(S2)
        ELSE ScannerAddToken(S2, "Number", NumberObj(ParseNumber(Text(text.text))))

\* while self.peek().is_ascii_alphanumeric() || self.peek() == '_' { ... }
RECURSIVE IdentifierLoop(_)
IdentifierLoop(S) ==
    LET p == ScannerPeek(S) IN
    IF ~p.ok THEN ScannerPanic(S)
    ELSE IF p.c \in Alphabetic \cup Digits THEN IdentifierLoop(ScannerAdvance(S))
    ELSE S

ScannerIdentifier(S) ==
    LET S1 == IdentifierLoop(S)
        text == Slice(S1.source, S1.start, S1.current)
    IN  IF S1.panicked THEN S1
        ELSE IF ~text.ok THEN ScannerPanic(S1)
        ELSE ScannerAddToken(S1, IF Text(text.text) \in DOMAIN Keywords
                                  THEN Keywords[Text(text.text)] ELSE "Identifier", None)

\* the characters that make a token of their own
SingleCharacter ==
    ("(" :> "LeftParen") @@ (")" :> "RightParen") @@ ("{" :> "LeftBrace")
    @@ ("}" :> "RightBrace") @@ ("," :> "Comma") @@ ("." :> "Dot")
    @@ ("-" :> "Minus") @@ ("+" :> "Plus") @@ (";" :> "Semicolon") @@ ("*" :> "Star")

\* scan_single_token, after self.start = self.current
scan_single_token(S0) ==
    LET S == ScannerAdvance([S0 EXCEPT !.start = S0.current])
        c == Taken(S0)
        comment == ScannerMatches(S, "/")
    IN  CASE S.panicked -> S
          [] c \in DOMAIN SingleCharacter -> ScannerAddToken(S, SingleCharacter[c], None)
          [] c = "!" -> OneOrTwo(S, "=", "BangEqual", "Bang")
          [] c = "=" -> OneOrTwo(S, "=", "EqualEqual", "Equal")
          [] c = "<" -> OneOrTwo(S, "=", "LessEqual", "Less")
          [] c = ">" -> OneOrTwo(S, "=", "GreaterEqual", "Greater")
          [] c = "/" -> IF ~comment.ok THEN ScannerPanic(S)
                        ELSE IF comment.matched THEN CommentLoop(comment.S)
                        ELSE ScannerAddToken(S, "Slash", None)
          [] c \in {" ", "\r", "\t"} -> S
          [] c = "\n" -> [S EXCEPT !.line = @ + 1, !.offset = 0]
          [] c = "\"" -> ScannerString(S)
          [] c \in Digits -> ScannerNumber(S)
          [] c \in Alphabetic -> ScannerIdentifier(S)
          [] OTHER -> ScannerError(S, "Unexpected character.")

\* the end of scan_tokens: the Eof token
ScannerEof(S) ==
    [S EXCEPT !.tokens = Append(@, Token("Eof", "", None, S.line, S.offset))]

(***************************************************************************)
(* Parser (parser.rs).  T is Parser.tokens.  P is what a parsing function  *)
(* changes: [current |-> Parser.current, reported |-> the messages printed *)
(* by report() so far].  A function that returns a Result returns          *)
(* [ok, node, P]: Ok(node) or Err(..), and the parser it leaves behind.    *)
(***************************************************************************)
NewParser == [current |-> 0, reported |-> <<>>]

Ok(P, node) == [ok |-> TRUE, node |-> node, P |-> P]

\* SyntaxError::new reports when the error is built, wherever it ends up
SyntaxError(P, message) ==
    [ok |-> FALSE, node |-> None, P |-> [P EXCEPT !.reported = Append(@, message)]]

\* lox_error only reports
lox_error(P, message) == [P EXCEPT !.reported = Append(@, message)]

MaxArguments == 255

peek(T, P) == T[P.current + 1]

\* tokens[current - 1]; no caller reaches it with current = 0
previous(T, P) == T[P.current]

is_at_end(T, P) == peek(T, P).token_type = "Eof"

check(T, P, token_type) ==
    IF is_at_end(T, P) THEN FALSE ELSE peek(T, P).token_type = token_type

\* the parser after advance(); the token it returns is previous() of it
advance(T, P) == IF ~is_at_end(T, P) THEN [P EXCEPT !.current = @ + 1] ELSE P

matches(T, P, token_types) ==
    IF \E token_type \in token_types : check(T, P, token_type)
    THEN [matched |-> TRUE, P |-> advance(T, P)]
    ELSE [matched |-> FALSE, P |-> P]

consume(T, P, token_type, message) ==
    IF check(T, P, token_type)
    THEN Ok(advance(T, P), previous(T, advance(T, P)))
    ELSE SyntaxError(P, message)

RECURSIVE SynchronizeLoop(_, _)
SynchronizeLoop(T, P) ==
    IF is_at_end(T, P) THEN P
    ELSE IF previous(T, P).token_type = "Semicolon" THEN P
    ELSE IF peek(T, P).token_type \in
                {"Class", "Fun", "Var", "For", "If", "While", "Print", "Return"}
         THEN P
    ELSE SynchronizeLoop(T, advance(T, P))

\* synchronize() that skips nothing
synchronize_nowhere(T, P) == P

\* synchronize() without its first advance()
synchronize_in_place(T, P) == SynchronizeLoop(T, P)

synchronize(T, P) == SynchronizeLoop(T, advance(T, P))

\* the operators of each binary level
Operators ==
    [or |-> {"Or"}, and |-> {"And"}, equality |-> {"BangEqual", "EqualEqual"},
     comparison |-> {"Greater", "GreaterEqual", "Less", "LessEqual"},
     term |-> {"Minus", "Plus"}, factor |-> {"Slash", "Star"}]

\* the function that parses an operand of each binary level
Operand ==
    [or |-> "and", and |-> "equality", equality |-> "comparison",
     comparison |-> "term", term |-> "factor", factor |-> "unary"]

\* for_statement with the increment put before the body
DesugarIncrementFirst(initializer, condition, increment, body) ==
    LET body1 == IF increment # None
                 THEN StmtBlock(<<StmtExpr(increment), body>>)
                 ELSE body
        condition1 == IF condition = None THEN Literal(BoolObj(TRUE)) ELSE condition
        body2 == StmtWhile(condition1, body1)
    IN  IF initializer # None THEN StmtBlock(<<initializer, body2>>) ELSE body2

\* for_statement after the body: the loop as a While in Blocks
Desugar(initializer, condition, increment, body) ==
    LET body1 == IF increment # None
                 THEN StmtBlock(<<body, StmtExpr(increment)>>)
                 ELSE body
        condition1 == IF condition = None THEN Literal(BoolObj(TRUE)) ELSE condition
        body2 == StmtWhile(condition1, body1)
    IN  IF initializer # None THEN StmtBlock(<<initializer, body2>>) ELSE body2

\* while self.matches(Comma) { .. params.push(self.consume(Identifier, ..)?) }
\* after the push of the first parameter; r is Ok(params) so far
RECURSIVE ParamsLoop(_, _)
ParamsLoop(T, r) ==
    LET m == matches(T, r.P, {"Comma"})
        P1 == IF Len(r.node) >= MaxArguments
              THEN lox_error(m.P, "Can't have more than 255 parameters.")
              ELSE m.P
        param == consume(T, P1, "Identifier", "Expect parameter name.")
    IN  CASE ~m.matched -> r
          [] ~param.ok -> param
          [] OTHER -> ParamsLoop(T, Ok(param.P, Append(r.node, param.node)))

\* function up to, and without, let body = self.block()?
FunctionHeader(T, P, kind) ==
    LET name == consume(T, P, "Identifier", "Expect " \o kind \o " name.")
        paren == consume(T, name.P, "LeftParen", "Expect '(' after " \o kind \o " name.")
        first == consume(T, paren.P, "Identifier", "Expect parameter name.")
        params ==
            CASE check(T, paren.P, "RightParen") -> Ok(paren.P, <<>>)
              [] ~first.ok -> first
              [] OTHER -> ParamsLoop(T, Ok(first.P, <<first.node>>))
        close == consume(T, params.P, "RightParen", "Expect ')' after parameters.")
        brace == consume(T, close.P, "LeftBrace", "Expect '{' before " \o kind \o " body.")
    IN  CASE ~name.ok -> name
          [] ~paren.ok -> paren
          [] ~params.ok -> params
          [] ~close.ok -> close
          [] ~brace.ok -> brace
          [] OTHER -> Ok(brace.P, [name |-> name.node, params |-> params.node])

\* class_declaration up to, and without, the loop over the methods
ClassHeader(T, P) ==
    LET name == consume(T, P, "Identifier", "Expect class name")
        brace == consume(T, name.P, "LeftBrace", "Expect '{' before class body.")
    IN  CASE ~name.ok -> name
          [] ~brace.ok -> brace
          [] OTHER -> Ok(brace.P, name.node)

(***************************************************************************)
(* Environment (environment.rs).  An environment is                        *)
(* [enclosing |-> index into the heap, or 0 for None,                      *)
(*  values |-> function from the defined names to cells].                  *)
(* Every operation takes the heap E and the index of self.                 *)
(***************************************************************************)
PANIC == 0

NewEnvironment(enclosing) == [enclosing |-> enclosing, values |-> <<>>]

insert(map, key, value) == (key :> value) @@ map

contains_key(map, key) == key \in DOMAIN map

RECURSIVE EnvGet(_, _, _)
EnvGet(E, self, name) ==
    IF contains_key(E[self].values, name.lexeme)
    THEN [ok |-> TRUE, cell |-> E[self].values[name.lexeme]]
    ELSE IF E[self].enclosing # 0
         THEN EnvGet(E, E[self].enclosing, name)
         ELSE [ok |-> FALSE, cell |-> 0]

\* assign that binds the name in the outermost environment when no
\* environment defines it
RECURSIVE EnvAssignOrDefine(_, _, _, _)
EnvAssignOrDefine(E, self, name, value) ==
    IF contains_key(E[self].values, name.lexeme) \/ E[self].enclosing = 0
    THEN [ok |-> TRUE,
          envs |-> [E EXCEPT ![self].values = insert(@, name.lexeme, value)]]
    ELSE EnvAssignOrDefine(E, E[self].enclosing, name, value)

RECURSIVE EnvAssign(_, _, _, _)
EnvAssign(E, self, name, value) ==
    IF contains_key(E[self].values, name.lexeme)
    THEN [ok |-> TRUE,
          envs |-> [E EXCEPT ![self].values = insert(@, name.lexeme, value)]]
    ELSE IF E[self].enclosing # 0
         THEN EnvAssign(E, E[self].enclosing, name, value)
         ELSE [ok |-> FALSE, envs |-> E]

EnvDefine(E, self, name, value) ==
    [E EXCEPT ![self].values = insert(@, name, value)]

\* the loop of ancestor: `hops` times to the enclosing environment
RECURSIVE Hop(_, _, _)
Hop(E, env, hops) ==
    IF hops = 0 THEN env
    ELSE IF E[env].enclosing = 0 THEN PANIC
         ELSE Hop(E, E[env].enclosing, hops - 1)

\* ancestor(distance): the environment reached, or PANIC.  The first step
\* to self.enclosing is unconditional; the loop then runs distance - 1
\* times in usize: at distance 0 the subtraction overflows, which panics
\* when overflow checks are on and otherwise wraps to usize::MAX, so that
\* the loop walks off the end of the (finite) chain and `expect` panics.
ancestor(E, self, distance) ==
    IF E[self].enclosing = 0 THEN PANIC
    ELSE IF distance = 0 THEN PANIC
    ELSE Hop(E, E[self].enclosing, distance - 1)

\* get_at(distance, name): the cell found, or PANIC
get_at(E, self, distance, name) ==
    IF distance = 0
    THEN IF contains_key(E[self].values, name) THEN E[self].values[name] ELSE PANIC
    ELSE LET a == ancestor(E, self, distance) IN
         IF a = PANIC THEN PANIC
         ELSE IF contains_key(E[a].values, name) THEN E[a].values[name] ELSE PANIC

\* assign_at(distance, name, value): the new heap, or panicked
assign_at(E, self, distance, name, value) ==
    LET a == ancestor(E, self, distance) IN
    IF a = PANIC THEN [ok |-> FALSE, envs |-> E]
    ELSE [ok |-> TRUE, envs |-> [E EXCEPT ![a].values = insert(@, name.lexeme, value)]]

(***************************************************************************)
(* Resolver (resolver.rs).  The resolver state is                          *)
(* [scopes, locals, current_function, current_class, err]: err is "" as    *)
(* long as every visit returned Ok(()), and the message of the first Err   *)
(* afterwards (the `?` operators let it end the whole pass).               *)
(***************************************************************************)
NewResolver ==
    [scopes |-> <<>>, locals |-> <<>>, current_function |-> "None",
     current_class |-> "None", err |-> ""]

Fail(R, message) == [R EXCEPT !.err = message]

begin_scope(R) == [R EXCEPT !.scopes = Append(@, <<>>)]

end_scope(R) == [R EXCEPT !.scopes = SubSeq(@, 1, Len(@) - 1)]

\* declare without the look at the scope: the name is entered again
declare_again(R, name) ==
    IF Len(R.scopes) = 0 THEN R
    ELSE [R EXCEPT !.scopes[Len(R.scopes)] = insert(@, name.lexeme, FALSE)]

\* declare entering the name as defined already
declare_defined(R, name) ==
    IF Len(R.scopes) = 0 THEN R
    ELSE IF contains_key(R.scopes[Len(R.scopes)], name.lexeme)
         THEN Fail(R, "Already a variable with this name in this scope.")
         ELSE [R EXCEPT !.scopes[Len(R.scopes)] = insert(@, name.lexeme, TRUE)]

declare(R, name) ==
    IF Len(R.scopes) = 0 THEN R
    ELSE IF contains_key(R.scopes[Len(R.scopes)], name.lexeme)
         THEN Fail(R, "Already a variable with this name in this scope.")
         ELSE [R EXCEPT !.scopes[Len(R.scopes)] = insert(@, name.lexeme, FALSE)]

define(R, name) ==
    IF Len(R.scopes) = 0 THEN R
    ELSE [R EXCEPT !.scopes[Len(R.scopes)] = insert(@, name.lexeme, TRUE)]

\* Interpreter::resolve, interpreter.rs
\* impl Hash for Object: whether hash() returns.  The arms of Nil, Class and
\* Instance call self.hash(state) again, without end
ObjectHashEnds(value) == value.tag \notin {"Nil", "Class", "Instance"}

\* impl Hash for Expr: whether hash() returns.  A Token hashes its fields,
\* and its literal is None, a Number or a String
RECURSIVE HashEnds(_)
HashEnds(e) ==
    CASE e.kind = "Assign" -> HashEnds(e.value)
      [] e.kind \in {"Binary", "Logical"} -> HashEnds(e.left) /\ HashEnds(e.right)
      [] e.kind = "Call" ->
            /\ HashEnds(e.callee)
            /\ \A i \in 1..Len(e.arguments) : HashEnds(e.arguments[i])
      [] e.kind = "Get" -> HashEnds(e.object)
      [] e.kind = "Grouping" -> HashEnds(e.expression)
      [] e.kind = "Literal" -> ObjectHashEnds(e.value)
      [] e.kind = "Set" -> HashEnds(e.object) /\ HashEnds(e.value)
      [] e.kind = "Unary" -> HashEnds(e.right)
      [] OTHER -> TRUE

\* the recursion of a hash() that does not return overflows the stack,
\* which ends the process
Overflow == "stack overflow"

\* self.locals.get(key): whether it may return.  A HashMap hashes the key,
\* except that some versions of the standard library answer None for an
\* empty map without hashing
GetReturns(L, key) ==
    IF HashEnds(key) THEN {TRUE} ELSE IF L = <<>> THEN {TRUE, FALSE} ELSE {FALSE}

resolve(L, expr, depth) == insert(L, expr, depth)

\* interpreter.resolve(expr, depth) as the resolver calls it: insert hashes
\* the key
Record(R, expr, depth) ==
    IF HashEnds(expr) THEN [R EXCEPT !.locals = resolve(@, expr, depth)]
    ELSE Fail(R, Overflow)

\* the loop of resolve_local, from scope i downwards
RECURSIVE ResolveLocalFrom(_, _, _, _)
ResolveLocalFrom(R, expr, name, i) ==
    IF i = 0 THEN R
    ELSE IF contains_key(R.scopes[i], name.lexeme)
         THEN Record(R, expr, Len(R.scopes) - i)
         ELSE ResolveLocalFrom(R, expr, name, i - 1)

\* resolve_local with the loop run from the outermost scope inwards
RECURSIVE ResolveLocalUp(_, _, _, _)
ResolveLocalUp(R, expr, name, i) ==
    IF i > Len(R.scopes) THEN R
    ELSE IF contains_key(R.scopes[i], name.lexeme)
         THEN Record(R, expr, Len(R.scopes) - i)
         ELSE ResolveLocalUp(R, expr, name, i + 1)

resolve_local_outermost(R, expr, name) == ResolveLocalUp(R, expr, name, 1)

\* scopes[i] of the source is R.scopes[i + 1] here, so the recorded depth
\* scopes.len() - 1 - i is Len(R.scopes) - (i + 1)
resolve_local(R, expr, name) == ResolveLocalFrom(R, expr, name, Len(R.scopes))

RECURSIVE ResolverVisitExpr(_, _), ResolverVisitExprs(_, _), ResolverVisitStmt(_, _),
          resolve_stmts(_, _), DeclareParams(_, _), ResolveMethods(_, _)

\* for param in params { declare(param)?; define(param) }
DeclareParams(R, params) ==
    IF params = <<>> THEN R
    ELSE LET R1 == declare(R, Head(params)) IN
         IF R1.err # "" THEN R1
         ELSE DeclareParams(define(R1, Head(params)), Tail(params))

resolve_function(R, stmt, function_type) ==
    LET enclosing_function == R.current_function
        R1 == begin_scope([R EXCEPT !.current_function = function_type])
        R2 == DeclareParams(R1, stmt.params)
        R3 == IF R2.err # "" THEN R2 ELSE resolve_stmts(R2, stmt.body)
    IN  IF R3.err # "" THEN R3
        ELSE [end_scope(R3) EXCEPT !.current_function = enclosing_function]

resolve_stmts(R, statements) ==
    IF statements = <<>> THEN R
    ELSE LET R1 == ResolverVisitStmt(R, Head(statements)) IN
         IF R1.err # "" THEN R1 ELSE resolve_stmts(R1, Tail(statements))

\* for argument in arguments { self.visit_expr(argument)?; }
ResolverVisitExprs(R, es) ==
    IF es = <<>> THEN R
    ELSE LET R1 == ResolverVisitExpr(R, Head(es)) IN
         IF R1.err # "" THEN R1 ELSE ResolverVisitExprs(R1, Tail(es))

ResolverVisitExpr(R, e) ==
    CASE e.kind = "Assign" ->
            LET R1 == ResolverVisitExpr(R, e.value) IN
            IF R1.err # "" THEN R1 ELSE resolve_local(R1, e, e.name)
      [] e.kind \in {"Binary", "Logical"} ->
            LET R1 == ResolverVisitExpr(R, e.left) IN
            IF R1.err # "" THEN R1 ELSE ResolverVisitExpr(R1, e.right)
      [] e.kind = "Call" ->
            LET R1 == ResolverVisitExpr(R, e.callee) IN
            IF R1.err # "" THEN R1 ELSE ResolverVisitExprs(R1, e.arguments)
      [] e.kind = "Get" -> ResolverVisitExpr(R, e.object)
      [] e.kind = "Grouping" -> ResolverVisitExpr(R, e.expression)
      [] e.kind = "Literal" -> R
      [] e.kind = "Set" ->
            LET R1 == ResolverVisitExpr(R, e.value) IN
            IF R1.err # "" THEN R1 ELSE ResolverVisitExpr(R1, e.object)
      [] e.kind = "This" ->
            IF R.current_class = "None"
            THEN Fail(R, "Can't use 'this' keyword outside of a class.")
            ELSE resolve_local(R, e, e.keyword)
      [] e.kind = "Unary" -> ResolverVisitExpr(R, e.right)
      [] e.kind = "Variable" ->
            IF /\ Len(R.scopes) # 0
               /\ contains_key(R.scopes[Len(R.scopes)], e.name.lexeme)
               /\ R.scopes[Len(R.scopes)][e.name.lexeme] = FALSE
            THEN Fail(R, "Can't read local variable in its own initializer.")
            ELSE resolve_local(R, e, e.name)

\* for method in methods { ...; self.resolve_function(method, declaration)?; }
ResolveMethods(R, methods) ==
    IF methods = <<>> THEN R
    ELSE LET function_type == IF Head(methods).name.lexeme = "init"
                              THEN "Initializer" ELSE "Method"
             R1 == resolve_function(R, Head(methods), function_type)
         IN  IF R1.err # "" THEN R1 ELSE ResolveMethods(R1, Tail(methods))

ResolverVisitClass(R, s) ==
    LET enclosing_class == R.current_class
        R1 == declare([R EXCEPT !.current_class = "Class"], s.name)
        R2 == define(R1, s.name)
        selfInherit == /\ s.superclass # None
                       /\ s.superclass.kind = "Variable"
                       /\ s.name.lexeme = s.superclass.name.lexeme
        R3 == IF s.superclass # None THEN ResolverVisitExpr(R2, s.superclass) ELSE R2
        R4 == [begin_scope(R3) EXCEPT !.scopes[Len(R3.scopes) + 1] = insert(@, "this", TRUE)]
        R5 == ResolveMethods(R4, s.methods)
    IN  IF R1.err # "" THEN R1
        ELSE IF selfInherit THEN Fail(R2, "A class can't inherit from itself")
        ELSE IF R3.err # "" THEN R3
        ELSE IF R5.err # "" THEN R5
        ELSE [end_scope(R5) EXCEPT !.current_class = enclosing_class]

ResolverVisitReturn(R, s) ==
    IF R.current_function = "None" THEN Fail(R, "Can't return from top-level code.")
    ELSE IF s.value.kind = "Literal"
         THEN IF s.value.value # NilObj
              THEN IF R.current_function = "Initializer"
                   THEN Fail(R, "Can't return a value from an initializer.")
                   ELSE ResolverVisitExpr(R, s.value)
              ELSE R
         ELSE ResolverVisitExpr(R, s.value)

ResolverVisitStmt(R, s) ==
    CASE s.kind = "Block" ->
            LET R1 == resolve_stmts(begin_scope(R), s.statements) IN
            IF R1.err # "" THEN R1 ELSE end_scope(R1)
      [] s.kind = "Class" -> ResolverVisitClass(R, s)
      [] s.kind = "Expr" -> ResolverVisitExpr(R, s.e)
      [] s.kind = "Function" ->
            LET R1 == declare(R, s.name) IN
            IF R1.err # "" THEN R1
            ELSE resolve_function(define(R1, s.name), s, "Function")
      [] s.kind = "If" ->
            LET R1 == ResolverVisitExpr(R, s.condition)
                R2 == IF R1.err # "" THEN R1 ELSE ResolverVisitStmt(R1, s.then_branch)
            IN  IF R2.err # "" \/ s.else_branch = None THEN R2
                ELSE ResolverVisitStmt(R2, s.else_branch)
      [] s.kind = "Print" -> ResolverVisitExpr(R, s.e)
      [] s.kind = "Return" -> ResolverVisitReturn(R, s)
      [] s.kind = "Var" ->
            LET R1 == declare(R, s.name)
                R2 == IF R1.err # "" \/ s.initializer = None THEN R1
                      ELSE ResolverVisitExpr(R1, s.initializer)
            IN  IF R2.err # "" THEN R2 ELSE define(R2, s.name)
      [] s.kind = "While" ->
            LET R1 == ResolverVisitExpr(R, s.condition) IN
            IF R1.err # "" THEN R1 ELSE ResolverVisitStmt(R1, s.body)

(***************************************************************************)
(* Objects: functions, classes, instances.                                  *)
(***************************************************************************)
\* Function::new, function.rs
NewFunction(stmt, closure, is_initializer) ==
    [is_initializer |-> is_initializer, declaration |-> stmt, closure |-> closure]

\* Function::arity and the arity of a native function
FunctionArity(f) == Len(f.declaration.params)

\* Class::new, class.rs; superclass is a cell, or 0 for None
NewClass(name, superclass, methods) ==
    [name |-> name, superclass |-> superclass, methods |-> methods]

\* Class::find_method: the function found, or None
RECURSIVE find_method(_, _, _)
find_method(C, klass, name) ==
    IF contains_key(klass.methods, name) THEN klass.methods[name]
    ELSE IF klass.superclass # 0 /\ C[klass.superclass].tag = "Class"
         THEN find_method(C, C[klass.superclass].c, name)
         ELSE None

\* Class::arity
ClassArity(C, klass) ==
    LET initializer == find_method(C, klass, "init") IN
    IF initializer # None THEN FunctionArity(initializer) ELSE 0

\* Instance::new, instance.rs
NewInstance(klass) == [klass |-> klass, fields |-> <<>>]

\* Instance::get: [ok, cells, cell]; a method found is wrapped in a new cell as it is
InstanceGet(C, i, name) ==
    IF contains_key(i.fields, name.lexeme)
    THEN [ok |-> TRUE, cells |-> C, cell |-> i.fields[name.lexeme]]
    ELSE LET method == find_method(C, i.klass, name.lexeme) IN
         IF method # None
         THEN [ok |-> TRUE, cells |-> Append(C, FunctionObj(method)), cell |-> Len(C) + 1]
         ELSE [ok |-> FALSE, cells |-> C, cell |-> 0]

\* Instance::set
InstanceSet(i, name, value) == [i EXCEPT !.fields = insert(@, name.lexeme, value)]

\* Function::bind: [envs, cells, f]; the instance is moved into a new cell
\* that a new environment, enclosed by the closure, binds to "this"
bind(E, C, f, instance) ==
    LET E1 == Append(E, NewEnvironment(f.closure))
        C1 == Append(C, InstanceObj(instance))
    IN  [envs |-> EnvDefine(E1, Len(E1), "this", Len(C1)),
         cells |-> C1,
         f |-> NewFunction(f.declaration, Len(E1), f.is_initializer)]

\* the loop of Function::call that defines the parameters
RECURSIVE DefineParams(_, _, _, _)
DefineParams(E, env, params, arguments) ==
    IF params = <<>> THEN E
    ELSE DefineParams(EnvDefine(E, env, Head(params).lexeme, Head(arguments)),
                      env, Tail(params), Tail(arguments))

\* is_truthy, interpreter.rs
is_truthy(obj) ==
    CASE obj.tag = "Nil" -> FALSE
      [] obj.tag = "Bool" -> obj.b
      [] OTHER -> TRUE

\* is_equal, interpreter.rs
is_equal(l, r) ==
    CASE l.tag = "Number" /\ r.tag = "Number" -> l.n = r.n
      [] l.tag = "String" /\ r.tag = "String" -> l.s = r.s
      [] l.tag = "Bool" /\ r.tag = "Bool" -> l.b = r.b
      [] l.tag = "Nil" /\ r.tag = "Nil" -> TRUE
      [] OTHER -> FALSE

\* impl fmt::Display for Object
Display(obj) ==
    CASE obj.tag = "Bool" -> IF obj.b THEN "true" ELSE "false"
      [] obj.tag = "Class" -> obj.c.name
      [] obj.tag = "Instance" -> obj.i.klass.name \o " instance"
      [] obj.tag = "String" -> obj.s
      [] obj.tag = "Number" -> ToString(obj.n)
      [] obj.tag = "Nil" -> "nil"
      [] obj.tag = "Function" -> "Function<" \o obj.f.declaration.name.lexeme \o ">"
      [] obj.tag = "NativeFunction" -> "Native Function"

\* the arms of Expr::Binary that need two numbers; numbers are integers
\* here, and `/` is the integer quotient (by zero: 0)
Arithmetic(token_type, l, r) ==
    CASE token_type = "Greater" -> BoolObj(l > r)
      [] token_type = "GreaterEqual" -> BoolObj(l >= r)
      [] token_type = "Less" -> BoolObj(l < r)
      [] token_type = "LessEqual" -> BoolObj(l <= r)
      [] token_type = "Minus" -> NumberObj(l - r)
      [] token_type = "Plus" -> NumberObj(l + r)
      [] token_type = "Slash" -> NumberObj(IF r = 0 THEN 0 ELSE l \div r)
      [] token_type = "Star" -> NumberObj(l * r)

\* the match of Expr::Binary on operator.token_type: [ok, obj, message]
BinaryResult(token_type, l, r) ==
    CASE token_type = "BangEqual" ->
            [ok |-> TRUE, obj |-> BoolObj(~is_equal(l, r)), message |-> ""]
      [] token_type = "EqualEqual" ->
            [ok |-> TRUE, obj |-> BoolObj(is_equal(l, r)), message |-> ""]
      [] token_type \in {"Greater", "GreaterEqual", "Less", "LessEqual",
                         "Minus", "Slash", "Star"} ->
            IF l.tag = "Number" /\ r.tag = "Number"
            THEN [ok |-> TRUE, obj |-> Arithmetic(token_type, l.n, r.n), message |-> ""]
            ELSE [ok |-> FALSE, obj |-> NilObj, message |-> "Operands must be numbers."]
      [] token_type = "Plus" ->
            IF l.tag = "Number" /\ r.tag = "Number"
            THEN [ok |-> TRUE, obj |-> Arithmetic(token_type, l.n, r.n), message |-> ""]
            ELSE IF l.tag = "String" /\ r.tag = "String"
            THEN [ok |-> TRUE, obj |-> StringObj(l.s \o r.s), message |-> ""]
            ELSE [ok |-> FALSE, obj |-> NilObj,
                  message |-> "Operands must be two numbers or two strings."]
      [] OTHER -> [ok |-> FALSE, obj |-> NilObj, message |-> "Invalid use of operator."]

\* the match of Expr::Unary on operator.token_type: [ok, obj, message]
UnaryResult(token_type, obj) ==
    CASE token_type = "Bang" -> [ok |-> TRUE, obj |-> BoolObj(is_truthy(obj)), message |-> ""]
      [] token_type = "Minus" ->
            IF obj.tag = "Number"
            THEN [ok |-> TRUE, obj |-> NumberObj(0 - obj.n), message |-> ""]
            ELSE [ok |-> FALSE, obj |-> NilObj, message |-> "Operand must be a number"]
      [] OTHER -> [ok |-> TRUE, obj |-> NilObj, message |-> ""]

(***************************************************************************)
(* The control of the machine and the pending frames.                      *)
(***************************************************************************)
Exec(s) == [mode |-> "exec", s |-> s]              \* visit_stmt(s) is entered
Eval(e) == [mode |-> "eval", e |-> e]              \* visit_expr(e) is entered
Ret(v) == [mode |-> "ret", v |-> v]                \* visit_expr returned Ok(v)
Done == [mode |-> "ok"]                            \* visit_stmt returned Ok(())
\* a visit returned Err(RuntimeError { value, message }); value is a cell
\* (Some: the signal of `return`) or 0 (None: a runtime error)
Err(value, message) == [mode |-> "err", value |-> value, message |-> message]
Apply == [mode |-> "call"]                         \* callee and arguments are evaluated
Panicking == [mode |-> "panic"]                    \* a panic unwinds the process
Idle == [mode |-> "idle"]

Top == kont[Len(kont)]
Pop == SubSeq(kont, 1, Len(kont) - 1)
Push(frame) == Append(kont, frame)
Replace(frame) == Append(Pop, frame)

\* the cells whose RefCell a pending frame of K holds borrowed mutably
\* (Expr::Set, while the value is evaluated) ...
MutBorrowed(K) == {K[j].object : j \in {k \in DOMAIN K : K[k].kind = "SetValue"}}

\* ... and borrowed shared (Expr::Call, while the callee runs)
SharedBorrowed(K) ==
    {K[j].callee : j \in {k \in DOMAIN K : K[k].kind \in {"FunctionCall", "ClassCall"}}} \ {0}

\* RefCell::borrow and RefCell::borrow_mut do not panic
CanBorrow(K, cell) == cell \notin MutBorrowed(K)
CanBorrowMut(K, cell) == cell \notin (MutBorrowed(K) \cup SharedBorrowed(K))

Running == pc = "interpret"

\* Interpreter.globals: the first environment of the heap
globals == 1

(***************************************************************************)
(* Interpreter::look_up_variable: the control afterwards.                  *)
(***************************************************************************)
\* look_up_variable as late binding would have it: the name is searched from
\* the current environment outwards when the expression is evaluated
look_up_late(name, expr) ==
    LET r == EnvGet(envs, environment, name) IN
    IF r.ok THEN Ret(r.cell)
    ELSE Err(0, "Get: Undefined variable '" \o name.lexeme \o "'.")

look_up_variable(name, expr) ==
    IF contains_key(locals, expr)
    THEN LET cell == get_at(envs, environment, locals[expr], name.lexeme) IN
         IF cell = PANIC THEN Panicking ELSE Ret(cell)
    ELSE LET r == EnvGet(envs, globals, name) IN
         IF r.ok THEN Ret(r.cell)
         ELSE Err(0, "Get: Undefined variable '" \o name.lexeme \o "'.")

(***************************************************************************)
(* Interpreter::visit_expr, one action per arm and per resumption of an    *)
(* arm after a nested visit returned Ok.                                   *)
(***************************************************************************)
Visiting(kind) == Running /\ ctrl.mode = "eval" /\ ctrl.e.kind = kind
Returned(kind) == Running /\ ctrl.mode = "ret" /\ kont # <<>> /\ Top.kind = kind
Completed(kind) == Running /\ ctrl.mode = "ok" /\ kont # <<>> /\ Top.kind = kind
Failed(kind) == Running /\ ctrl.mode = "err" /\ kont # <<>> /\ Top.kind = kind

VisitLiteral ==
    /\ Visiting("Literal")
    /\ cells' = Append(cells, ctrl.e.value)
    /\ ctrl' = Ret(Len(cells) + 1)
    /\ UNCHANGED <<run, envs,
                   environment, idx, kont, output>>

VisitGrouping ==
    /\ Visiting("Grouping")
    /\ ctrl' = Eval(ctrl.e.expression)
    /\ UNCHANGED <<run, envs, cells,
                   environment, idx, kont, output>>

VisitVariable ==
    /\ Visiting("Variable")
    /\ ctrl' = look_up_variable(ctrl.e.name, ctrl.e)
    /\ UNCHANGED <<run, envs, cells,
                   environment, idx, kont, output>>

VisitThis ==
    /\ Visiting("This")
    /\ ctrl' = look_up_variable(ctrl.e.keyword, ctrl.e)
    /\ UNCHANGED <<run, envs, cells,
                   environment, idx, kont, output>>

VisitAssign ==
    /\ Visiting("Assign")
    /\ kont' = Push([kind |-> "Assign", e |-> ctrl.e])
    /\ ctrl' = Eval(ctrl.e.value)
    /\ UNCHANGED <<run, envs, cells,
                   environment, idx, output>>

\* the rest of the Assign arm: [envs, ctrl]
AssignResult(e, object) ==
    IF contains_key(locals, e)
    THEN LET r == assign_at(envs, environment, locals[e], e.name, object) IN
         [envs |-> r.envs, ctrl |-> IF r.ok THEN Ret(object) ELSE Panicking]
    ELSE LET r == EnvAssign(envs, globals, e.name, object) IN
         [envs |-> r.envs,
          ctrl |-> IF r.ok THEN Ret(object)
                   ELSE Err(0, "Assign: Undefined variable '" \o e.name.lexeme \o "'.")]

ResumeAssign ==
    /\ Returned("Assign")
    /\ \E returns \in GetReturns(locals, Top.e) :
        LET r == AssignResult(Top.e, ctrl.v) IN
        IF returns
        THEN envs' = r.envs /\ ctrl' = r.ctrl
        ELSE envs' = envs /\ ctrl' = Panicking
    /\ kont' = Pop
    /\ UNCHANGED <<run, cells,
                   environment, idx, output>>

VisitBinary ==
    /\ Visiting("Binary")
    /\ kont' = Push([kind |-> "BinaryLeft", e |-> ctrl.e])
    /\ ctrl' = Eval(ctrl.e.left)
    /\ UNCHANGED <<run, envs, cells,
                   environment, idx, output>>

ResumeBinaryLeft ==
    /\ Returned("BinaryLeft")
    /\ kont' = Replace([kind |-> "BinaryRight", e |-> Top.e, left |-> ctrl.v])
    /\ ctrl' = Eval(Top.e.right)
    /\ UNCHANGED <<run, envs, cells,
                   environment, idx, output>>

\* every arm but the last borrows both operands
ResumeBinaryRight ==
    /\ Returned("BinaryRight")
    /\ LET r == BinaryResult(Top.e.operator.token_type, cells[Top.left], cells[ctrl.v])
           known == Top.e.operator.token_type \in
                        {"BangEqual", "EqualEqual", "Greater", "GreaterEqual", "Less",
                         "LessEqual", "Minus", "Plus", "Slash", "Star"}
       IN  IF known /\ ~(CanBorrow(Pop, Top.left) /\ CanBorrow(Pop, ctrl.v))
           THEN ctrl' = Panicking /\ cells' = cells
           ELSE IF r.ok
           THEN ctrl' = Ret(Len(cells) + 1) /\ cells' = Append(cells, r.obj)
           ELSE ctrl' = Err(0, r.message) /\ cells' = cells
    /\ kont' = Pop
    /\ UNCHANGED <<run, envs,
                   environment, idx, output>>

VisitLogical ==
    /\ Visiting("Logical")
    /\ kont' = Push([kind |-> "Logical", e |-> ctrl.e])
    /\ ctrl' = Eval(ctrl.e.left)
    /\ UNCHANGED <<run, envs, cells,
                   environment, idx, output>>

ResumeLogical ==
    /\ Returned("Logical")
    /\ ctrl' = IF ~CanBorrow(Pop, ctrl.v) THEN Panicking
               ELSE IF Top.e.operator.token_type = "Or"
               THEN IF is_truthy(cells[ctrl.v]) THEN Ret(ctrl.v) ELSE Eval(Top.e.right)
               ELSE IF ~is_truthy(cells[ctrl.v]) THEN Ret(ctrl.v) ELSE Eval(Top.e.right)
    /\ kont' = Pop
    /\ UNCHANGED <<run, envs, cells,
                   environment, idx, output>>

VisitUnary ==
    /\ Visiting("Unary")
    /\ kont' = Push([kind |-> "Unary", e |-> ctrl.e])
    /\ ctrl' = Eval(ctrl.e.right)
    /\ UNCHANGED <<run, envs, cells,
                   environment, idx, output>>

ResumeUnary ==
    /\ Returned("Unary")
    /\ LET r == UnaryResult(Top.e.operator.token_type, cells[ctrl.v])
           borrows == Top.e.operator.token_type \in {"Bang", "Minus"}
       IN  IF borrows /\ ~CanBorrow(Pop, ctrl.v)
           THEN ctrl' = Panicking /\ cells' = cells
           ELSE IF r.ok
           THEN ctrl' = Ret(Len(cells) + 1) /\ cells' = Append(cells, r.obj)
           ELSE ctrl' = Err(0, r.message) /\ cells' = cells
    /\ kont' = Pop
    /\ UNCHANGED <<run, envs,
                   environment, idx, output>>

VisitGet ==
    /\ Visiting("Get")
    /\ kont' = Push([kind |-> "Get", e |-> ctrl.e])
    /\ ctrl' = Eval(ctrl.e.object)
    /\ UNCHANGED <<run, envs, cells,
                   environment, idx, output>>

ResumeGet ==
    /\ Returned("Get")
    /\ IF ~CanBorrow(Pop, ctrl.v)
       THEN ctrl' = Panicking /\ cells' = cells
       ELSE IF cells[ctrl.v].tag = "Instance"
       THEN LET r == InstanceGet(cells, cells[ctrl.v].i, Top.e.name) IN
            /\ cells' = r.cells
            /\ ctrl' = IF r.ok THEN Ret(r.cell)
                       ELSE Err(0, "Undefined property '" \o Top.e.name.lexeme \o "'.")
       ELSE ctrl' = Err(0, "Only instances have properties.") /\ cells' = cells
    /\ kont' = Pop
    /\ UNCHANGED <<run, envs,
                   environment, idx, output>>

VisitSet ==
    /\ Visiting("Set")
    /\ kont' = Push([kind |-> "SetObject", e |-> ctrl.e])
    /\ ctrl' = Eval(ctrl.e.object)
    /\ UNCHANGED <<run, envs, cells,
                   environment, idx, output>>

\* object.borrow_mut() is taken here and held until the arm is left
ResumeSetObject ==
    /\ Returned("SetObject")
    /\ IF ~CanBorrowMut(Pop, ctrl.v)
       THEN ctrl' = Panicking /\ kont' = Pop
       ELSE IF cells[ctrl.v].tag = "Instance"
       THEN /\ ctrl' = Eval(Top.e.value)
            /\ kont' = Replace([kind |-> "SetValue", e |-> Top.e, object |-> ctrl.v])
       ELSE ctrl' = Err(0, "Only instances have fields.") /\ kont' = Pop
    /\ UNCHANGED <<run, envs, cells,
                   environment, idx, output>>

ResumeSetValue ==
    /\ Returned("SetValue")
    /\ cells' = [cells EXCEPT ![Top.object].i = InstanceSet(@, Top.e.name, ctrl.v)]
    /\ ctrl' = Ret(ctrl.v)
    /\ kont' = Pop
    /\ UNCHANGED <<run, envs,
                   environment, idx, output>>

(***************************************************************************)
(* Expr::Call, Function::call, NativeFunction::call and Class::call.       *)
(***************************************************************************)
VisitCall ==
    /\ Visiting("Call")
    /\ kont' = Push([kind |-> "CallCallee", e |-> ctrl.e])
    /\ ctrl' = Eval(ctrl.e.callee)
    /\ UNCHANGED <<run, envs, cells,
                   environment, idx, output>>

ResumeCallCallee ==
    /\ Returned("CallCallee")
    /\ kont' = Replace([kind |-> "CallArgs", e |-> Top.e, callee |-> ctrl.v,
                        arguments |-> <<>>])
    /\ ctrl' = IF Top.e.arguments = <<>> THEN Apply ELSE Eval(Top.e.arguments[1])
    /\ UNCHANGED <<run, envs, cells,
                   environment, idx, output>>

ResumeCallArgument ==
    /\ Returned("CallArgs")
    /\ LET arguments == Append(Top.arguments, ctrl.v) IN
       /\ kont' = Replace([Top EXCEPT !.arguments = arguments])
       /\ ctrl' = IF Len(arguments) = Len(Top.e.arguments) THEN Apply
                  ELSE Eval(Top.e.arguments[Len(arguments) + 1])
    /\ UNCHANGED <<run, envs, cells,
                   environment, idx, output>>

Applying == Running /\ ctrl.mode = "call" /\ kont # <<>> /\ Top.kind = "CallArgs"

ArityError(arity, arguments) ==
    Err(0, "Expected " \o ToString(arity) \o " arguments but got "
           \o ToString(Len(arguments)) \o ".")

\* callee.borrow() panics: the callee is the instance of a pending Expr::Set
CallBorrowed ==
    /\ Applying
    /\ ~CanBorrow(Pop, Top.callee)
    /\ ctrl' = Panicking
    /\ kont' = Pop
    /\ UNCHANGED <<run, envs, cells,
                   environment, idx, output>>

CallNotCallable ==
    /\ Applying
    /\ CanBorrow(Pop, Top.callee)
    /\ cells[Top.callee].tag \notin {"Function", "NativeFunction", "Class"}
    /\ ctrl' = Err(0, "Can only call functions and classes")
    /\ kont' = Pop
    /\ UNCHANGED <<run, envs, cells,
                   environment, idx, output>>

\* EnterFunction as capture by copy would have it: the environment of the
\* call is enclosed by a copy of the closure, made when the call starts
EnterFunctionByCopy(E, f, arguments, callee) ==
    LET E1 == Append(E, E[f.closure])
        E2 == Append(E1, NewEnvironment(Len(E1)))
    IN  [envs |-> DefineParams(E2, Len(E2), f.declaration.params, arguments),
         environment |-> Len(E2),
         frames |-> <<[kind |-> "FunctionCall", f |-> f, callee |-> callee],
                      [kind |-> "Block", rest |-> f.declaration.body,
                       previous |-> environment]>>]

\* Function::call up to the first statement of the body: [envs, frames]:
\* a new environment enclosed by the closure holds the parameters, and
\* interpret_block makes it the current one
EnterFunction(E, f, arguments, callee) ==
    LET E1 == Append(E, NewEnvironment(f.closure)) IN
    [envs |-> DefineParams(E1, Len(E1), f.declaration.params, arguments),
     environment |-> Len(E1),
     frames |-> <<[kind |-> "FunctionCall", f |-> f, callee |-> callee],
                  [kind |-> "Block", rest |-> f.declaration.body,
                   previous |-> environment]>>]

\* CallFunction with the check of the arity as `<`: a call with more
\* arguments than parameters enters the body
CallFunctionLate ==
    /\ Applying
    /\ CanBorrow(Pop, Top.callee)
    /\ cells[Top.callee].tag = "Function"
    /\ LET func == cells[Top.callee].f
           r == EnterFunction(envs, func, Top.arguments, Top.callee)
       IN  IF Len(Top.arguments) < FunctionArity(func)
           THEN /\ ctrl' = ArityError(FunctionArity(func), Top.arguments)
                /\ kont' = Pop
                /\ UNCHANGED <<envs, environment>>
           ELSE /\ ctrl' = Done
                /\ kont' = Pop \o r.frames
                /\ envs' = r.envs
                /\ environment' = r.environment
    /\ UNCHANGED <<run, cells, idx, output>>

CallFunction ==
    /\ Applying
    /\ CanBorrow(Pop, Top.callee)
    /\ cells[Top.callee].tag = "Function"
    /\ LET func == cells[Top.callee].f
           r == EnterFunction(envs, func, Top.arguments, Top.callee)
       IN  IF Len(Top.arguments) # FunctionArity(func)
           THEN /\ ctrl' = ArityError(FunctionArity(func), Top.arguments)
                /\ kont' = Pop
                /\ UNCHANGED <<envs, environment>>
           ELSE /\ ctrl' = Done
                /\ kont' = Pop \o r.frames
                /\ envs' = r.envs
                /\ environment' = r.environment
    /\ UNCHANGED <<run, cells, idx, output>>

\* the value of the clock is an input
MaxClock == 1

CallNativeFunction ==
    /\ Applying
    /\ CanBorrow(Pop, Top.callee)
    /\ cells[Top.callee].tag = "NativeFunction"
    /\ \E now \in 0..MaxClock :
          IF Len(Top.arguments) # cells[Top.callee].arity
          THEN /\ ctrl' = ArityError(cells[Top.callee].arity, Top.arguments)
               /\ cells' = cells
          ELSE /\ ctrl' = Ret(Len(cells) + 1)
               /\ cells' = Append(cells, NumberObj(now))
    /\ kont' = Pop
    /\ UNCHANGED <<run, envs,
                   environment, idx, output>>

\* Class::call: the initializer, bound to a clone of the new instance, is
\* called; the frame keeps the instance that the call will return
CallClass ==
    /\ Applying
    /\ CanBorrow(Pop, Top.callee)
    /\ cells[Top.callee].tag = "Class"
    /\ LET klass == cells[Top.callee].c
           instance == NewInstance(klass)
           initializer == find_method(cells, klass, "init")
           b == bind(envs, cells, initializer, instance)
           r == EnterFunction(b.envs, b.f, Top.arguments, 0)
       IN  IF Len(Top.arguments) # ClassArity(cells, klass)
           THEN /\ ctrl' = ArityError(ClassArity(cells, klass), Top.arguments)
                /\ kont' = Pop
                /\ UNCHANGED <<envs, cells, environment>>
           ELSE IF initializer # None
           THEN /\ ctrl' = Done
                /\ kont' = Pop \o <<[kind |-> "ClassCall", instance |-> instance,
                                     callee |-> Top.callee]>> \o r.frames
                /\ envs' = r.envs
                /\ cells' = b.cells
                /\ environment' = r.environment
           ELSE /\ ctrl' = Ret(Len(cells) + 1)
                /\ cells' = Append(cells, InstanceObj(instance))
                /\ kont' = Pop
                /\ UNCHANGED <<envs, environment>>
    /\ UNCHANGED <<run, idx, output>>

\* the end of Function::call: what the call returns for an initializer
ThisOfClosure(f) ==
    LET cell == get_at(envs, f.closure, 0, "this") IN
    IF cell = PANIC THEN Panicking ELSE Ret(cell)

\* interpret_block returned Ok(())
ResumeFunctionCall ==
    /\ Completed("FunctionCall")
    /\ IF Top.f.is_initializer
       THEN ctrl' = ThisOfClosure(Top.f) /\ cells' = cells
       ELSE ctrl' = Ret(Len(cells) + 1) /\ cells' = Append(cells, NilObj)
    /\ kont' = Pop
    /\ UNCHANGED <<run, envs,
                   environment, idx, output>>

\* interpret_block returned Err(e): a value in e makes it the result
CatchReturn ==
    /\ Failed("FunctionCall")
    /\ ctrl' = IF ctrl.value # 0
               THEN IF Top.f.is_initializer THEN ThisOfClosure(Top.f) ELSE Ret(ctrl.value)
               ELSE ctrl
    /\ kont' = Pop
    /\ UNCHANGED <<run, envs, cells,
                   environment, idx, output>>

\* the initializer returned Ok: Class::call wraps its own instance
ResumeClassCall ==
    /\ Returned("ClassCall")
    /\ cells' = Append(cells, InstanceObj(Top.instance))
    /\ ctrl' = Ret(Len(cells) + 1)
    /\ kont' = Pop
    /\ UNCHANGED <<run, envs,
                   environment, idx, output>>

(***************************************************************************)
(* Interpreter::visit_stmt and Interpreter::interpret_block.               *)
(***************************************************************************)
Executing(kind) == Running /\ ctrl.mode = "exec" /\ ctrl.s.kind = kind

ExecExpr ==
    /\ Executing("Expr")
    /\ kont' = Push([kind |-> "ExprStmt"])
    /\ ctrl' = Eval(ctrl.s.e)
    /\ UNCHANGED <<run, envs, cells,
                   environment, idx, output>>

ResumeExpr ==
    /\ Returned("ExprStmt")
    /\ kont' = Pop
    /\ ctrl' = Done
    /\ UNCHANGED <<run, envs, cells,
                   environment, idx, output>>

ExecIf ==
    /\ Executing("If")
    /\ kont' = Push([kind |-> "If", s |-> ctrl.s])
    /\ ctrl' = Eval(ctrl.s.condition)
    /\ UNCHANGED <<run, envs, cells,
                   environment, idx, output>>

ResumeIf ==
    /\ Returned("If")
    /\ ctrl' = IF ~CanBorrow(Pop, ctrl.v) THEN Panicking
               ELSE IF is_truthy(cells[ctrl.v]) THEN Exec(Top.s.then_branch)
               ELSE IF Top.s.else_branch # None THEN Exec(Top.s.else_branch)
               ELSE Done
    /\ kont' = Pop
    /\ UNCHANGED <<run, envs, cells,
                   environment, idx, output>>

ExecPrint ==
    /\ Executing("Print")
    /\ kont' = Push([kind |-> "Print"])
    /\ ctrl' = Eval(ctrl.s.e)
    /\ UNCHANGED <<run, envs, cells,
                   environment, idx, output>>

ResumePrint ==
    /\ Returned("Print")
    /\ IF ~CanBorrow(Pop, ctrl.v)
       THEN ctrl' = Panicking /\ output' = output
       ELSE ctrl' = Done /\ output' = Append(output, Display(cells[ctrl.v]))
    /\ kont' = Pop
    /\ UNCHANGED <<run, envs, cells,
                   environment, idx>>

ExecReturn ==
    /\ Executing("Return")
    /\ kont' = Push([kind |-> "Return", keyword |-> ctrl.s.keyword])
    /\ ctrl' = Eval(ctrl.s.value)
    /\ UNCHANGED <<run, envs, cells,
                   environment, idx, output>>

\* Ok(o) becomes Err(RuntimeError::new(keyword, "", Some(o)))
ResumeReturn ==
    /\ Returned("Return")
    /\ ctrl' = Err(ctrl.v, "")
    /\ kont' = Pop
    /\ UNCHANGED <<run, envs, cells,
                   environment, idx, output>>

ExecVar ==
    /\ Executing("Var")
    /\ IF ctrl.s.initializer # None
       THEN /\ kont' = Push([kind |-> "Var", name |-> ctrl.s.name])
            /\ ctrl' = Eval(ctrl.s.initializer)
            /\ UNCHANGED <<envs, cells>>
       ELSE /\ cells' = Append(cells, NilObj)
            /\ envs' = EnvDefine(envs, environment, ctrl.s.name.lexeme, Len(cells) + 1)
            /\ ctrl' = Done
            /\ kont' = kont
    /\ UNCHANGED <<run, environment,
                   idx, output>>

ResumeVar ==
    /\ Returned("Var")
    /\ envs' = EnvDefine(envs, environment, Top.name.lexeme, ctrl.v)
    /\ ctrl' = Done
    /\ kont' = Pop
    /\ UNCHANGED <<run, cells,
                   environment, idx, output>>

\* Stmt::Block: interpret_block in a new environment enclosed by the current one
ExecBlock ==
    /\ Executing("Block")
    /\ envs' = Append(envs, NewEnvironment(environment))
    /\ environment' = Len(envs) + 1
    /\ kont' = Push([kind |-> "Block", rest |-> ctrl.s.statements,
                     previous |-> environment])
    /\ ctrl' = Done
    /\ UNCHANGED <<run, cells, idx, output>>

\* the loop of interpret_block: the next statement, or the end
ResumeBlock ==
    /\ Completed("Block")
    /\ IF Top.rest = <<>>
       THEN /\ environment' = Top.previous
            /\ kont' = Pop
            /\ ctrl' = Done
       ELSE /\ environment' = environment
            /\ kont' = Replace([Top EXCEPT !.rest = Tail(@)])
            /\ ctrl' = Exec(Head(Top.rest))
    /\ UNCHANGED <<run, envs, cells,
                   idx, output>>

\* interpret_block without the restore on Err
LeaveBlockOnly ==
    /\ Failed("Block")
    /\ kont' = Pop
    /\ UNCHANGED <<run, envs, cells, environment, idx, ctrl, output>>

\* a statement of the block returned Err(e)
LeaveBlock ==
    /\ Failed("Block")
    /\ environment' = Top.previous
    /\ kont' = Pop
    /\ UNCHANGED <<run, envs, cells,
                   idx, ctrl, output>>

\* the methods map of Stmt::Class
RECURSIVE Methods(_, _)
Methods(stmt_methods, closure) ==
    IF stmt_methods = <<>> THEN <<>>
    ELSE LET method == stmt_methods[Len(stmt_methods)] IN
         insert(Methods(SubSeq(stmt_methods, 1, Len(stmt_methods) - 1), closure),
                method.name.lexeme,
                NewFunction(method, closure, method.name.lexeme = "init"))

ExecClass ==
    /\ Executing("Class")
    /\ LET name == ctrl.s.name
           C1 == Append(cells, NilObj)
           E1 == EnvDefine(envs, environment, name.lexeme, Len(C1))
           klass == NewClass(name.lexeme, 0, Methods(ctrl.s.methods, environment))
           C2 == Append(C1, ClassObj(klass))
           r == EnvAssign(E1, environment, name, Len(C2))
       IN  /\ cells' = C2
           /\ envs' = r.envs
           /\ ctrl' = IF r.ok THEN Done
                      ELSE Err(0, "Assign: Undefined variable '" \o name.lexeme \o "'.")
    /\ UNCHANGED <<run, environment,
                   idx, kont, output>>

ExecWhile ==
    /\ Executing("While")
    /\ kont' = Push([kind |-> "While", s |-> ctrl.s])
    /\ ctrl' = Eval(ctrl.s.condition)
    /\ UNCHANGED <<run, envs, cells,
                   environment, idx, output>>

ResumeWhile ==
    /\ Returned("While")
    /\ IF ~CanBorrow(Pop, ctrl.v)
       THEN ctrl' = Panicking /\ kont' = Pop
       ELSE IF is_truthy(cells[ctrl.v])
       THEN ctrl' = Exec(Top.s.body) /\ kont' = Replace([kind |-> "WhileBody", s |-> Top.s])
       ELSE ctrl' = Done /\ kont' = Pop
    /\ UNCHANGED <<run, envs, cells,
                   environment, idx, output>>

ResumeWhileBody ==
    /\ Completed("WhileBody")
    /\ kont' = Replace([kind |-> "While", s |-> Top.s])
    /\ ctrl' = Eval(Top.s.condition)
    /\ UNCHANGED <<run, envs, cells,
                   environment, idx, output>>

ExecFunction ==
    /\ Executing("Function")
    /\ cells' = Append(cells, FunctionObj(NewFunction(ctrl.s, environment, FALSE)))
    /\ envs' = EnvDefine(envs, environment, ctrl.s.name.lexeme, Len(cells) + 1)
    /\ ctrl' = Done
    /\ UNCHANGED <<run, environment,
                   idx, kont, output>>

\* Propagate as it would be if a loop took the signal of `return` for a
\* break: the loop ends and the statement after it runs
PropagateBreaksLoop ==
    /\ Running /\ ctrl.mode = "err" /\ kont # <<>>
    /\ Top.kind \notin {"Block", "FunctionCall"}
    /\ kont' = Pop
    /\ ctrl' = IF Top.kind = "WhileBody" /\ ctrl.value # 0 THEN Done ELSE ctrl
    /\ UNCHANGED <<run, envs, cells, environment, idx, output>>

\* the `?` operators: a frame that neither restores the environment nor
\* catches a return hands Err(e) on to its caller
Propagate ==
    /\ Running /\ ctrl.mode = "err" /\ kont # <<>>
    /\ Top.kind \notin {"Block", "FunctionCall"}
    /\ kont' = Pop
    /\ UNCHANGED <<run, envs, cells,
                   environment, idx, ctrl, output>>

(***************************************************************************)
(* Parser::parse and the parsing functions, which call each other to any   *)
(* depth: one action per call and per resumption of a function after a     *)
(* call it made.  ctrl is the call that is entered (ParseCall) or the      *)
(* Result that a call returned (Parsed); the pending calls are frames of   *)
(* kont, each with what its function holds in locals.  declaration()       *)
(* returns an Option: Some(stmt) is Parsed with ok, None is Parsed         *)
(* without.                                                                *)
(***************************************************************************)
Parsing == pc = "parse"

\* the Parser as the functions of above take it
Parser == [current |-> current, reported |-> reported]

ParseCall(fn, kind) == [mode |-> "parse", fn |-> fn, kind |-> kind]
Parsed(r) == [mode |-> "parsed", ok |-> r.ok, node |-> r.node]

Calling(fn) == Parsing /\ ctrl.mode = "parse" /\ ctrl.fn = fn
Returning(kind) == Parsing /\ ctrl.mode = "parsed" /\ kont # <<>> /\ Top.kind = kind

\* a function returns the Result r to the frames K
Return(K, r) ==
    /\ current' = r.P.current
    /\ reported' = r.P.reported
    /\ ctrl' = Parsed(r)
    /\ kont' = K

\* a function with the frames K below it calls fn, the parser being P, and
\* waits in frame
CallFn(K, P, fn, frame) ==
    /\ current' = P.current
    /\ reported' = P.reported
    /\ ctrl' = ParseCall(fn, IF fn = "function" THEN frame.calls ELSE "")
    /\ kont' = Append(K, frame)

\* what no parsing step changes
interpreter == <<had_error, had_runtime_error, locals, envs, cells, environment,
                 idx, output>>

\* parse(): while !self.is_at_end() { let declaration = self.declaration(); ..
ParseNext ==
    /\ Parsing /\ ctrl = Idle /\ kont = <<>>
    /\ ~is_at_end(tokens, Parser)
    /\ CallFn(kont, Parser, "declaration", [kind |-> "parse"])
    /\ UNCHANGED <<pc, tokens, stmts, interpreter>>

\* .. match declaration { Some(d) => statements.push(d), None => {} } }
ParsePush ==
    /\ Returning("parse")
    /\ stmts' = IF ctrl.ok THEN Append(stmts, ctrl.node) ELSE stmts
    /\ ctrl' = Idle
    /\ kont' = Pop
    /\ UNCHANGED <<pc, tokens, current, reported, interpreter>>

\* parse() returns Ok(statements), whatever was reported: run() takes the
\* Ok arm of its match, which leaves *had_error alone
ParseEnd ==
    /\ Parsing /\ ctrl = Idle /\ kont = <<>>
    /\ is_at_end(tokens, Parser)
    /\ pc' = "resolve"
    /\ UNCHANGED <<tokens, current, reported, stmts, interpreter, ctrl, kont>>

\* declaration(): the dispatch on Class, Fun, Var, and statement() otherwise
Declaration ==
    /\ Calling("declaration")
    /\ LET P1 == advance(tokens, Parser) IN
       CASE check(tokens, Parser, "Class") ->
                CallFn(kont, P1, "class_declaration", [kind |-> "declaration"])
         [] check(tokens, Parser, "Fun") ->
                CallFn(kont, P1, "function",
                       [kind |-> "declaration", calls |-> "function"])
         [] check(tokens, Parser, "Var") ->
                CallFn(kont, P1, "var_declaration", [kind |-> "declaration"])
         [] OTHER ->
                CallFn(kont, Parser, "statement", [kind |-> "declaration"])
    /\ UNCHANGED <<pc, tokens, stmts, interpreter>>

\* declaration(): Ok(s) => Some(s)
Declared ==
    /\ Returning("declaration") /\ ctrl.ok
    /\ kont' = Pop
    /\ UNCHANGED <<pc, tokens, current, reported, stmts, interpreter, ctrl>>

\* declaration(): Err(_) => { self.synchronize(); None }
Synchronize ==
    /\ Returning("declaration") /\ ~ctrl.ok
    /\ current' = synchronize(tokens, Parser).current
    /\ kont' = Pop
    /\ UNCHANGED <<pc, tokens, reported, stmts, interpreter, ctrl>>

\* the loop of class_declaration, with the frames K below it: another
\* method, or the closing brace and Ok(Stmt::Class)
MethodsLoop(K, P, name, methods) ==
    IF ~check(tokens, P, "RightBrace") /\ ~is_at_end(tokens, P)
    THEN CallFn(K, P, "function",
                [kind |-> "class", calls |-> "method", name |-> name,
                 methods |-> methods])
    ELSE LET brace == consume(tokens, P, "RightBrace", "Expect '}' after class body.") IN
         Return(K, IF brace.ok THEN Ok(brace.P, StmtClass(name, methods)) ELSE brace)

ClassDeclaration ==
    /\ Calling("class_declaration")
    /\ LET header == ClassHeader(tokens, Parser) IN
       IF header.ok THEN MethodsLoop(kont, header.P, header.node, <<>>)
       ELSE Return(kont, header)
    /\ UNCHANGED <<pc, tokens, stmts, interpreter>>

\* methods.push(self.function("method")?), and the loop again
Method ==
    /\ Returning("class") /\ ctrl.ok
    /\ MethodsLoop(Pop, Parser, Top.name, Append(Top.methods, ctrl.node))
    /\ UNCHANGED <<pc, tokens, stmts, interpreter>>

\* function(kind) up to let body = self.block()?
Function ==
    /\ Calling("function")
    /\ LET header == FunctionHeader(tokens, Parser, ctrl.kind) IN
       IF header.ok
       THEN CallFn(kont, header.P, "block",
                   [kind |-> "function", name |-> header.node.name,
                    params |-> header.node.params])
       ELSE Return(kont, header)
    /\ UNCHANGED <<pc, tokens, stmts, interpreter>>

\* Ok(Stmt::Function { name, params, body })
FunctionBody ==
    /\ Returning("function") /\ ctrl.ok
    /\ Return(Pop, Ok(Parser, StmtFunction(Top.name, Top.params, ctrl.node)))
    /\ UNCHANGED <<pc, tokens, stmts, interpreter>>

\* the loop of block(), with the frames K below it: another declaration,
\* or the closing brace and Ok(statements)
BlockLoop(K, statements) ==
    IF ~check(tokens, Parser, "RightBrace") /\ ~is_at_end(tokens, Parser)
    THEN CallFn(K, Parser, "declaration", [kind |-> "block", statements |-> statements])
    ELSE LET brace == consume(tokens, Parser, "RightBrace", "Expect '}' after block.") IN
         Return(K, IF brace.ok THEN Ok(brace.P, statements) ELSE brace)

Block ==
    /\ Calling("block")
    /\ BlockLoop(kont, <<>>)
    /\ UNCHANGED <<pc, tokens, stmts, interpreter>>

\* match self.declaration() { Some(d) => statements.push(d), None => {} }
BlockPush ==
    /\ Returning("block")
    /\ BlockLoop(Pop, IF ctrl.ok THEN Append(Top.statements, ctrl.node)
                      ELSE Top.statements)
    /\ UNCHANGED <<pc, tokens, stmts, interpreter>>

\* statement(): matches(If), and if_statement up to the condition
IfStatement ==
    /\ Calling("statement") /\ check(tokens, Parser, "If")
    /\ LET paren == consume(tokens, advance(tokens, Parser), "LeftParen",
                            "Expect '(' after 'if'.")
       IN  IF paren.ok THEN CallFn(kont, paren.P, "expression", [kind |-> "if_condition"])
           ELSE Return(kont, paren)
    /\ UNCHANGED <<pc, tokens, stmts, interpreter>>

IfCondition ==
    /\ Returning("if_condition") /\ ctrl.ok
    /\ LET paren == consume(tokens, Parser, "RightParen",
                            "Expect ')' after if condition.")
       IN  IF paren.ok
           THEN CallFn(Pop, paren.P, "statement",
                       [kind |-> "if_then", condition |-> ctrl.node])
           ELSE Return(Pop, paren)
    /\ UNCHANGED <<pc, tokens, stmts, interpreter>>

\* if self.matches(Else) { else_branch = Some(Box::new(self.statement()?)) }
ThenBranch ==
    /\ Returning("if_then") /\ ctrl.ok
    /\ IF check(tokens, Parser, "Else")
       THEN CallFn(Pop, advance(tokens, Parser), "statement",
                   [kind |-> "if_else", condition |-> Top.condition,
                    then_branch |-> ctrl.node])
       ELSE Return(Pop, Ok(Parser, StmtIf(Top.condition, ctrl.node, None)))
    /\ UNCHANGED <<pc, tokens, stmts, interpreter>>

ElseBranch ==
    /\ Returning("if_else") /\ ctrl.ok
    /\ Return(Pop, Ok(Parser, StmtIf(Top.condition, Top.then_branch, ctrl.node)))
    /\ UNCHANGED <<pc, tokens, stmts, interpreter>>

\* for_statement from self.consume(RightParen, ..) on, up to the body
ForBodyClause(K, P, initializer, condition, increment) ==
    LET paren == consume(tokens, P, "RightParen", "Expect ')' after for clauses.") IN
    IF paren.ok
    THEN CallFn(K, paren.P, "statement",
                [kind |-> "for", initializer |-> initializer, condition |-> condition,
                 increment |-> increment])
    ELSE Return(K, paren)

\* for_statement from self.consume(Semicolon, ..) on, up to the increment
ForIncrementClause(K, P, initializer, condition) ==
    LET semi == consume(tokens, P, "Semicolon", "Expect ';' after loop condition.") IN
    CASE ~semi.ok -> Return(K, semi)
      [] ~check(tokens, semi.P, "RightParen") ->
            CallFn(K, semi.P, "expression",
                   [kind |-> "for_increment", initializer |-> initializer,
                    condition |-> condition])
      [] OTHER -> ForBodyClause(K, semi.P, initializer, condition, None)

\* for_statement from let mut condition = None on, up to the condition
ForConditionClause(K, P, initializer) ==
    IF ~check(tokens, P, "Semicolon")
    THEN CallFn(K, P, "expression",
                [kind |-> "for_condition", initializer |-> initializer])
    ELSE ForIncrementClause(K, P, initializer, None)

\* statement(): matches(For), and for_statement up to the initializer
ForStatement ==
    /\ Calling("statement") /\ check(tokens, Parser, "For")
    /\ LET paren == consume(tokens, advance(tokens, Parser), "LeftParen",
                            "Expect '(' after 'for'.")
       IN  CASE ~paren.ok -> Return(kont, paren)
             [] check(tokens, paren.P, "Semicolon") ->
                    ForConditionClause(kont, advance(tokens, paren.P), None)
             [] check(tokens, paren.P, "Var") ->
                    CallFn(kont, advance(tokens, paren.P), "var_declaration",
                           [kind |-> "for_initializer"])
             [] OTHER ->
                    CallFn(kont, paren.P, "expression_statement",
                           [kind |-> "for_initializer"])
    /\ UNCHANGED <<pc, tokens, stmts, interpreter>>

ForInitializer ==
    /\ Returning("for_initializer") /\ ctrl.ok
    /\ ForConditionClause(Pop, Parser, ctrl.node)
    /\ UNCHANGED <<pc, tokens, stmts, interpreter>>

ForCondition ==
    /\ Returning("for_condition") /\ ctrl.ok
    /\ ForIncrementClause(Pop, Parser, Top.initializer, ctrl.node)
    /\ UNCHANGED <<pc, tokens, stmts, interpreter>>

ForIncrement ==
    /\ Returning("for_increment") /\ ctrl.ok
    /\ ForBodyClause(Pop, Parser, Top.initializer, Top.condition, ctrl.node)
    /\ UNCHANGED <<pc, tokens, stmts, interpreter>>

ForBody ==
    /\ Returning("for") /\ ctrl.ok
    /\ Return(Pop, Ok(Parser, Desugar(Top.initializer, Top.condition, Top.increment,
                                      ctrl.node)))
    /\ UNCHANGED <<pc, tokens, stmts, interpreter>>

\* statement(): matches(Print), and print_statement up to the value
PrintStatement ==
    /\ Calling("statement") /\ check(tokens, Parser, "Print")
    /\ CallFn(kont, advance(tokens, Parser), "expression", [kind |-> "print"])
    /\ UNCHANGED <<pc, tokens, stmts, interpreter>>

PrintValue ==
    /\ Returning("print") /\ ctrl.ok
    /\ LET semi == consume(tokens, Parser, "Semicolon", "Expect ';' after value.") IN
       Return(Pop, IF semi.ok THEN Ok(semi.P, StmtPrint(ctrl.node)) ELSE semi)
    /\ UNCHANGED <<pc, tokens, stmts, interpreter>>

\* return_statement from self.consume(Semicolon, ..) on
ReturnEnd(K, P, keyword, value) ==
    LET semi == consume(tokens, P, "Semicolon", "Expect ';' after return value.") IN
    Return(K, IF semi.ok THEN Ok(semi.P, StmtReturn(keyword, value)) ELSE semi)

\* statement(): matches(Return), and return_statement up to the value
ReturnStatement ==
    /\ Calling("statement") /\ check(tokens, Parser, "Return")
    /\ LET P1 == advance(tokens, Parser)
           keyword == previous(tokens, P1)
       IN  IF ~check(tokens, P1, "Semicolon")
           THEN CallFn(kont, P1, "expression", [kind |-> "return", keyword |-> keyword])
           ELSE ReturnEnd(kont, P1, keyword, Literal(NilObj))
    /\ UNCHANGED <<pc, tokens, stmts, interpreter>>

ReturnValue ==
    /\ Returning("return") /\ ctrl.ok
    /\ ReturnEnd(Pop, Parser, Top.keyword, ctrl.node)
    /\ UNCHANGED <<pc, tokens, stmts, interpreter>>

\* statement(): matches(While), and while_statement up to the condition
WhileStatement ==
    /\ Calling("statement") /\ check(tokens, Parser, "While")
    /\ LET paren == consume(tokens, advance(tokens, Parser), "LeftParen",
                            "Expect '(' after 'while'.")
       IN  IF paren.ok
           THEN CallFn(kont, paren.P, "expression", [kind |-> "while_condition"])
           ELSE Return(kont, paren)
    /\ UNCHANGED <<pc, tokens, stmts, interpreter>>

WhileCondition ==
    /\ Returning("while_condition") /\ ctrl.ok
    /\ LET paren == consume(tokens, Parser, "RightParen", "Expect ')' after condition.")
       IN  IF paren.ok
           THEN CallFn(Pop, paren.P, "statement",
                       [kind |-> "while", condition |-> ctrl.node])
           ELSE Return(Pop, paren)
    /\ UNCHANGED <<pc, tokens, stmts, interpreter>>

WhileBody ==
    /\ Returning("while") /\ ctrl.ok
    /\ Return(Pop, Ok(Parser, StmtWhile(Top.condition, ctrl.node)))
    /\ UNCHANGED <<pc, tokens, stmts, interpreter>>

\* statement(): matches(LeftBrace), and self.block()?
BlockStatement ==
    /\ Calling("statement") /\ check(tokens, Parser, "LeftBrace")
    /\ CallFn(kont, advance(tokens, Parser), "block", [kind |-> "statement"])
    /\ UNCHANGED <<pc, tokens, stmts, interpreter>>

\* Ok(Stmt::Block { statements })
BlockStatementEnd ==
    /\ Returning("statement") /\ ctrl.ok
    /\ Return(Pop, Ok(Parser, StmtBlock(ctrl.node)))
    /\ UNCHANGED <<pc, tokens, stmts, interpreter>>

\* expression_statement up to the expression: the last case of statement(),
\* and the initializer of a for
ExpressionStatement ==
    /\ Parsing /\ ctrl.mode = "parse"
    /\ IF ctrl.fn = "statement"
       THEN ~\E token_type \in {"If", "For", "Print", "Return", "While", "LeftBrace"} :
                check(tokens, Parser, token_type)
       ELSE ctrl.fn = "expression_statement"
    /\ CallFn(kont, Parser, "expression", [kind |-> "expression_statement"])
    /\ UNCHANGED <<pc, tokens, stmts, interpreter>>

ExpressionValue ==
    /\ Returning("expression_statement") /\ ctrl.ok
    /\ LET semi == consume(tokens, Parser, "Semicolon", "Expect ';' after expression.") IN
       Return(Pop, IF semi.ok THEN Ok(semi.P, StmtExpr(ctrl.node)) ELSE semi)
    /\ UNCHANGED <<pc, tokens, stmts, interpreter>>

\* var_declaration from self.consume(Semicolon, ..) on
VarEnd(K, P, name, initializer) ==
    LET semi == consume(tokens, P, "Semicolon", "Expect ';' after variable declaration")
    IN  Return(K, IF semi.ok THEN Ok(semi.P, StmtVar(name, initializer)) ELSE semi)

\* var_declaration up to the initializer
VarDeclaration ==
    /\ Calling("var_declaration")
    /\ LET name == consume(tokens, Parser, "Identifier", "Expect variable name.") IN
       CASE ~name.ok -> Return(kont, name)
         [] check(tokens, name.P, "Equal") ->
                CallFn(kont, advance(tokens, name.P), "expression",
                       [kind |-> "var", name |-> name.node])
         [] OTHER -> VarEnd(kont, name.P, name.node, None)
    /\ UNCHANGED <<pc, tokens, stmts, interpreter>>

VarInitializer ==
    /\ Returning("var") /\ ctrl.ok
    /\ VarEnd(Pop, Parser, Top.name, ctrl.node)
    /\ UNCHANGED <<pc, tokens, stmts, interpreter>>

\* expression() is assignment()
Expression ==
    /\ Calling("expression")
    /\ ctrl' = ParseCall("assignment", "")
    /\ UNCHANGED <<pc, tokens, current, reported, stmts, interpreter, kont>>

\* let expr = self.or()?
Assignment ==
    /\ Calling("assignment")
    /\ CallFn(kont, Parser, "or", [kind |-> "assignment"])
    /\ UNCHANGED <<pc, tokens, stmts, interpreter>>

\* if self.matches(Equal) { .. let value = self.assignment()? .. } Ok(expr)
AssignmentTarget ==
    /\ Returning("assignment") /\ ctrl.ok
    /\ IF check(tokens, Parser, "Equal")
       THEN CallFn(Pop, advance(tokens, Parser), "assignment",
                   [kind |-> "assignment_value", expr |-> ctrl.node])
       ELSE Return(Pop, Ok(Parser, ctrl.node))
    /\ UNCHANGED <<pc, tokens, stmts, interpreter>>

\* match expr { Variable => Ok(Assign), Get => Ok(Set), _ => Err(..) }
AssignmentValue ==
    /\ Returning("assignment_value") /\ ctrl.ok
    /\ LET expr == Top.expr IN
       Return(Pop, CASE expr.kind = "Variable" ->
                            Ok(Parser, Assign(expr.name, ctrl.node))
                     [] expr.kind = "Get" ->
                            Ok(Parser, Set(expr.object, expr.name, ctrl.node))
                     [] OTHER -> SyntaxError(Parser, "Invalid assignment target."))
    /\ UNCHANGED <<pc, tokens, stmts, interpreter>>

\* while self.matches(..) { let operator = self.previous();
\* let right = self.operand()?; expr = .. }  Ok(expr)
OperatorLoop(K, level, expr) ==
    IF \E token_type \in Operators[level] : check(tokens, Parser, token_type)
    THEN LET P1 == advance(tokens, Parser) IN
         CallFn(K, P1, Operand[level],
                [kind |-> "right", level |-> level, left |-> expr,
                 operator |-> previous(tokens, P1)])
    ELSE Return(K, Ok(Parser, expr))

\* or, and, equality, comparison, term, factor: let mut expr = self.operand()?
LeftAssociative ==
    \E level \in DOMAIN Operators :
        /\ Calling(level)
        /\ CallFn(kont, Parser, Operand[level], [kind |-> "left", level |-> level])
        /\ UNCHANGED <<pc, tokens, stmts, interpreter>>

LeftOperand ==
    /\ Returning("left") /\ ctrl.ok
    /\ OperatorLoop(Pop, Top.level, ctrl.node)
    /\ UNCHANGED <<pc, tokens, stmts, interpreter>>

\* expr = Expr::Logical { .. } in or and and, Expr::Binary { .. } below
RightOperand ==
    /\ Returning("right") /\ ctrl.ok
    /\ OperatorLoop(Pop, Top.level,
                    IF Top.level \in {"or", "and"}
                    THEN Logical(Top.left, Top.operator, ctrl.node)
                    ELSE Binary(Top.left, Top.operator, ctrl.node))
    /\ UNCHANGED <<pc, tokens, stmts, interpreter>>

\* unary(): if self.matches(Bang, Minus) { .. self.unary()? .. } self.call()
UnaryOperator ==
    /\ Calling("unary")
    /\ LET P1 == advance(tokens, Parser) IN
       IF check(tokens, Parser, "Bang") \/ check(tokens, Parser, "Minus")
       THEN CallFn(kont, P1, "unary", [kind |-> "unary", operator |-> previous(tokens, P1)])
       ELSE /\ ctrl' = ParseCall("call", "")
            /\ UNCHANGED <<current, reported, kont>>
    /\ UNCHANGED <<pc, tokens, stmts, interpreter>>

UnaryRight ==
    /\ Returning("unary") /\ ctrl.ok
    /\ Return(Pop, Ok(Parser, Unary(Top.operator, ctrl.node)))
    /\ UNCHANGED <<pc, tokens, stmts, interpreter>>

\* call(): let mut expr = self.primary()?
CallPrimary ==
    /\ Calling("call")
    /\ CallFn(kont, Parser, "primary", [kind |-> "call"])
    /\ UNCHANGED <<pc, tokens, stmts, interpreter>>

\* finish_call from self.consume(RightParen, ..) on; its Result is the expr
\* of the loop of call(), whose frame is the top of K
ArgumentsEnd(K, P, callee, arguments) ==
    LET paren == consume(tokens, P, "RightParen", "Expect ')' after arguments.") IN
    Return(K, IF paren.ok THEN Ok(paren.P, Call(callee, paren.node, arguments))
              ELSE paren)

\* the loop of call(): finish_call up to its first argument, or a Get, or
\* break
CallLoop ==
    /\ Returning("call") /\ ctrl.ok
    /\ LET P1 == advance(tokens, Parser)
           name == consume(tokens, P1, "Identifier", "Expect propery name after '.'.")
       IN  CASE check(tokens, Parser, "LeftParen") ->
                    IF ~check(tokens, P1, "RightParen")
                    THEN CallFn(kont, P1, "expression",
                                [kind |-> "finish_call", callee |-> ctrl.node,
                                 arguments |-> <<>>])
                    ELSE ArgumentsEnd(kont, P1, ctrl.node, <<>>)
             [] check(tokens, Parser, "Dot") ->
                    Return(kont, IF name.ok THEN Ok(name.P, Get(ctrl.node, name.node))
                                 ELSE name)
             [] OTHER -> Return(Pop, Ok(Parser, ctrl.node))
    /\ UNCHANGED <<pc, tokens, stmts, interpreter>>

\* arguments.push(expression); while self.matches(Comma) { .. }
Argument ==
    /\ Returning("finish_call") /\ ctrl.ok
    /\ LET arguments == Append(Top.arguments, ctrl.node)
           P1 == advance(tokens, Parser)
       IN  IF check(tokens, Parser, "Comma")
           THEN CallFn(Pop,
                       IF Len(arguments) >= MaxArguments
                       THEN lox_error(P1, "Can't have more than 255 arguments.")
                       ELSE P1,
                       "expression", [Top EXCEPT !.arguments = arguments])
           ELSE ArgumentsEnd(Pop, Parser, Top.callee, arguments)
    /\ UNCHANGED <<pc, tokens, stmts, interpreter>>

\* primary(): a literal, this, an identifier, a grouping up to its
\* expression, or Err("Expected expression.")
Primary ==
    /\ Calling("primary")
    /\ LET P1 == advance(tokens, Parser) IN
       CASE check(tokens, Parser, "False") ->
                Return(kont, Ok(P1, Literal(BoolObj(FALSE))))
         [] check(tokens, Parser, "True") ->
                Return(kont, Ok(P1, Literal(BoolObj(TRUE))))
         [] check(tokens, Parser, "Nil") ->
                Return(kont, Ok(P1, Literal(NilObj)))
         [] check(tokens, Parser, "Number") \/ check(tokens, Parser, "String") ->
                Return(kont, Ok(P1, Literal(previous(tokens, P1).literal)))
         [] check(tokens, Parser, "This") ->
                Return(kont, Ok(P1, This(previous(tokens, P1))))
         [] check(tokens, Parser, "Identifier") ->
                Return(kont, Ok(P1, Variable(previous(tokens, P1))))
         [] check(tokens, Parser, "LeftParen") ->
                CallFn(kont, P1, "expression", [kind |-> "grouping"])
         [] OTHER -> Return(kont, SyntaxError(Parser, "Expected expression."))
    /\ UNCHANGED <<pc, tokens, stmts, interpreter>>

\* self.consume(RightParen, ..)?; Ok(Expr::Grouping { .. })
GroupingEnd ==
    /\ Returning("grouping") /\ ctrl.ok
    /\ LET paren == consume(tokens, Parser, "RightParen", "Expect ')' after expression.")
       IN  Return(Pop, IF paren.ok THEN Ok(paren.P, Grouping(ctrl.node)) ELSE paren)
    /\ UNCHANGED <<pc, tokens, stmts, interpreter>>

\* the `?` operators: Err(e) goes to the caller.  Only parse() and block(),
\* which take the Option of declaration(), and declaration() itself go on
ParsePropagate ==
    /\ Parsing /\ ctrl.mode = "parsed" /\ ~ctrl.ok /\ kont # <<>>
    /\ Top.kind \notin {"parse", "block", "declaration"}
    /\ kont' = Pop
    /\ UNCHANGED <<pc, tokens, current, reported, stmts, interpreter, ctrl>>

(***************************************************************************)
(* lib.rs run() and Interpreter::interpret.                                *)
(***************************************************************************)
\* resolver.resolve_stmts(&stmts): an Err is reported and sets had_error, and
\* the run goes on to interpret
Resolve ==
    /\ pc = "resolve"
    /\ LET R == resolve_stmts(NewResolver, stmts) IN
       IF R.err = Overflow
       THEN /\ pc' = "panicked"
            /\ UNCHANGED <<locals, had_error, reported>>
       ELSE /\ locals' = R.locals
            /\ had_error' = (had_error \/ R.err # "")
            /\ reported' = IF R.err # "" THEN Append(reported, R.err) ELSE reported
            /\ pc' = "interpret"
    /\ UNCHANGED <<tokens, current, stmts, had_runtime_error, envs, cells,
                   environment, idx, ctrl, kont, output>>

\* for stmt in stmts { let _ = self.visit_stmt(stmt); }: the next statement
\* is visited whatever the last visit returned
InterpretNext ==
    /\ Running /\ kont = <<>> /\ ctrl.mode \in {"idle", "ok", "err"}
    /\ idx < Len(stmts)
    /\ idx' = idx + 1
    /\ ctrl' = Exec(stmts[idx + 1])
    /\ UNCHANGED <<run, envs, cells,
                   environment, kont, output>>

\* interpret returns, and run() with it
InterpretEnd ==
    /\ Running /\ kont = <<>> /\ ctrl.mode \in {"idle", "ok", "err"}
    /\ idx = Len(stmts)
    /\ pc' = "done"
    /\ UNCHANGED <<tokens, current, reported, stmts, had_error, had_runtime_error, locals,
                   envs, cells,
                   environment, idx, ctrl, kont, output>>

\* a panic ends the process
Abort ==
    /\ Running /\ ctrl.mode = "panic"
    /\ pc' = "panicked"
    /\ UNCHANGED <<tokens, current, reported, stmts, had_error, had_runtime_error, locals,
                   envs, cells,
                   environment, idx, ctrl, kont, output>>

(***************************************************************************)
(* The sources explored.  Each is the sequence of its words.               *)
(***************************************************************************)
RECURSIVE Rep(_, _)
Rep(n, words) == IF n = 0 THEN <<>> ELSE words \o Rep(n - 1, words)

\* var a = 1; { var a = 2; print a; } print a;
SrcShadow ==
    <<"var", "a", "=", "1", ";", "{", "var", "a", "=", "2", ";", "print", "a", ";", "}",
      "print", "a", ";">>

\* { var a = 1; {^d print a; }^d }
SrcRead(d) ==
    <<"{", "var", "a", "=", "1", ";">> \o Rep(d, <<"{">>) \o <<"print", "a", ";">>
    \o Rep(d, <<"}">>) \o <<"}">>

\* { var a = 1; {^d a = 2; }^d print a; }
SrcAssign(d) ==
    <<"{", "var", "a", "=", "1", ";">> \o Rep(d, <<"{">>) \o <<"a", "=", "2", ";">>
    \o Rep(d, <<"}">>) \o <<"print", "a", ";", "}">>

\* fun f(x) { x = 1; print x; } f(0);
SrcAssignParam ==
    <<"fun", "f", "(", "x", ")", "{", "x", "=", "1", ";", "print", "x", ";", "}",
      "f", "(", "0", ")", ";">>

\* fun make() { var i = 0; {^d fun inc() { i = i + 1; return i; } return inc; }^d }
\* var c = make(); print c(); (k times)
SrcCounter(d, k) ==
    <<"fun", "make", "(", ")", "{", "var", "i", "=", "0", ";">> \o Rep(d, <<"{">>)
    \o <<"fun", "inc", "(", ")", "{", "i", "=", "i", "+", "1", ";", "return", "i", ";", "}",
         "return", "inc", ";">>
    \o Rep(d, <<"}">>)
    \o <<"}", "var", "c", "=", "make", "(", ")", ";">>
    \o Rep(k, <<"print", "c", "(", ")", ";">>)

\* var counter = 0; fun inc() { counter = counter + 1; return counter; }
\* print inc(); (k times)
SrcGlobalCounter(k) ==
    <<"var", "counter", "=", "0", ";",
      "fun", "inc", "(", ")", "{", "counter", "=", "counter", "+", "1", ";",
      "return", "counter", ";", "}">>
    \o Rep(k, <<"print", "inc", "(", ")", ";">>)

\* var s; var g;
\* { var n = 0; {^d fun set(v) { n = v; } fun get() { return n; } s = set; g = get; }^d }
\* print g(); s(5); print g();
SrcShared(d) ==
    <<"var", "s", ";", "var", "g", ";", "{", "var", "n", "=", "0", ";">>
    \o Rep(d, <<"{">>)
    \o <<"fun", "set", "(", "v", ")", "{", "n", "=", "v", ";", "}",
         "fun", "get", "(", ")", "{", "return", "n", ";", "}",
         "s", "=", "set", ";", "g", "=", "get", ";">>
    \o Rep(d, <<"}">>)
    \o <<"}", "print", "g", "(", ")", ";", "s", "(", "5", ")", ";",
         "print", "g", "(", ")", ";">>

\* var a = "global"; { {^d fun show() { print a; } show(); var a = "local"; show(); }^d }
SrcLexicalGlobal(d) ==
    <<"var", "a", "=", "\"global\"", ";", "{">> \o Rep(d, <<"{">>)
    \o <<"fun", "show", "(", ")", "{", "print", "a", ";", "}", "show", "(", ")", ";",
         "var", "a", "=", "\"local\"", ";", "show", "(", ")", ";">>
    \o Rep(d, <<"}">>) \o <<"}">>

\* { var a = "global"; {^d { fun show() { print a; } show(); var a = "local"; show(); } }^d }
SrcLexicalBlock(d) ==
    <<"{", "var", "a", "=", "\"global\"", ";">> \o Rep(d, <<"{">>)
    \o <<"{", "fun", "show", "(", ")", "{", "print", "a", ";", "}", "show", "(", ")", ";",
         "var", "a", "=", "\"local\"", ";", "show", "(", ")", ";", "}">>
    \o Rep(d, <<"}">>) \o <<"}">>

\* fun f() { {^d while (true) { if (true) { return 1; } print "no"; } }^d print "no"; }
\* print f(); print 2;
SrcReturnLoop(d) ==
    <<"fun", "f", "(", ")", "{">> \o Rep(d, <<"{">>)
    \o <<"while", "(", "true", ")", "{", "if", "(", "true", ")", "{", "return", "1", ";", "}",
         "print", "\"no\"", ";", "}">>
    \o Rep(d, <<"}">>)
    \o <<"print", "\"no\"", ";", "}", "print", "f", "(", ")", ";", "print", "2", ";">>

\* fun g() { return 1; print "no"; }
\* fun f() { var x = g(); print x; return 2; print "no"; } print f();
SrcReturnNested ==
    <<"fun", "g", "(", ")", "{", "return", "1", ";", "print", "\"no\"", ";", "}",
      "fun", "f", "(", ")", "{", "var", "x", "=", "g", "(", ")", ";", "print", "x", ";",
      "return", "2", ";", "print", "\"no\"", ";", "}", "print", "f", "(", ")", ";">>

\* fun f() { return; print "no"; } print f();
SrcReturnBare ==
    <<"fun", "f", "(", ")", "{", "return", ";", "print", "\"no\"", ";", "}",
      "print", "f", "(", ")", ";">>

\* class A { init() { return; print "no"; } } print A();
SrcReturnInit ==
    <<"class", "A", "{", "init", "(", ")", "{", "return", ";", "print", "\"no\"", ";", "}", "}",
      "print", "A", "(", ")", ";">>

\* return 1; print 2;
SrcReturnTop == <<"return", "1", ";", "print", "2", ";">>

\* print 1; print -"a"; print 2;
SrcRuntimeError ==
    <<"print", "1", ";", "print", "-", "\"a\"", ";", "print", "2", ";">>

\* print 1; { print undefined; print "no"; }
SrcRuntimeErrorLast ==
    <<"print", "1", ";", "{", "print", "undefined", ";", "print", "\"no\"", ";", "}">>

\* class Cake { init(a) { this.adj = a; } } var c = Cake("rich"); print c.adj;
SrcInit ==
    <<"class", "Cake", "{", "init", "(", "a", ")", "{", "this", ".", "adj", "=", "a", ";",
      "}", "}", "var", "c", "=", "Cake", "(", "\"rich\"", ")", ";",
      "print", "c", ".", "adj", ";">>

\* class A { } var a = A(); a.x = 1; print a.x; print a.y;
SrcFields ==
    <<"class", "A", "{", "}", "var", "a", "=", "A", "(", ")", ";",
      "a", ".", "x", "=", "1", ";", "print", "a", ".", "x", ";", "print", "a", ".", "y", ";">>

\* class A { m() { return this; } } var a = A(); print a.m();
SrcMethodThis ==
    <<"class", "A", "{", "m", "(", ")", "{", "return", "this", ";", "}", "}",
      "var", "a", "=", "A", "(", ")", ";", "print", "a", ".", "m", "(", ")", ";">>

\* class A { put() { this.x = 1; } } var a = A(); a.put(); print a.x;
SrcThisWrite ==
    <<"class", "A", "{", "put", "(", ")", "{", "this", ".", "x", "=", "1", ";", "}", "}",
      "var", "a", "=", "A", "(", ")", ";", "a", ".", "put", "(", ")", ";",
      "print", "a", ".", "x", ";">>

\* class A { get() { return this.x; } } var a = A(); a.x = 2; print a.get();
SrcThisRead ==
    <<"class", "A", "{", "get", "(", ")", "{", "return", "this", ".", "x", ";", "}", "}",
      "var", "a", "=", "A", "(", ")", ";", "a", ".", "x", "=", "2", ";",
      "print", "a", ".", "get", "(", ")", ";">>

\* class A { m() { return 1; } } var a = A(); print a.m(); a.m = 2; print a.m;
SrcFieldShadowsMethod ==
    <<"class", "A", "{", "m", "(", ")", "{", "return", "1", ";", "}", "}",
      "var", "a", "=", "A", "(", ")", ";", "print", "a", ".", "m", "(", ")", ";",
      "a", ".", "m", "=", "2", ";", "print", "a", ".", "m", ";">>

\* class A { } var a = A(); a.f = a(); print 1;
SrcSetSelf ==
    <<"class", "A", "{", "}", "var", "a", "=", "A", "(", ")", ";",
      "a", ".", "f", "=", "a", "(", ")", ";", "print", "1", ";">>

\* print clock(); print clock(1); 1(); print 1.x; 1.x = 2;
SrcCalls ==
    <<"print", "clock", "(", ")", ";", "print", "clock", "(", "1", ")", ";",
      "1", "(", ")", ";", "print", "1", ".", "x", ";", "1", ".", "x", "=", "2", ";">>

\* fun f(a, b) { return a + b; } print f(1, 2); print f(1); class A { } print A(1);
SrcArity ==
    <<"fun", "f", "(", "a", ",", "b", ")", "{", "return", "a", "+", "b", ";", "}",
      "print", "f", "(", "1", ",", "2", ")", ";", "print", "f", "(", "1", ")", ";",
      "class", "A", "{", "}", "print", "A", "(", "1", ")", ";">>

\* print (1 + 2) * 3; print !true; print -1; print true and false; print nil or 1;
\* if (1 < 2) print 1; else print 2; if (1 == 2) print 3; if (2 >= 3) print 4; else print 5;
SrcOperators ==
    <<"print", "(", "1", "+", "2", ")", "*", "3", ";", "print", "!", "true", ";",
      "print", "-", "1", ";", "print", "true", "and", "false", ";",
      "print", "nil", "or", "1", ";",
      "if", "(", "1", "<", "2", ")", "print", "1", ";", "else", "print", "2", ";",
      "if", "(", "1", "==", "2", ")", "print", "3", ";",
      "if", "(", "2", ">=", "3", ")", "print", "4", ";", "else", "print", "5", ";">>

\* var i = 0; while (i < 2) { i = i + 1; } print i;
SrcWhile ==
    <<"var", "i", "=", "0", ";", "while", "(", "i", "<", "2", ")", "{",
      "i", "=", "i", "+", "1", ";", "}", "print", "i", ";">>

\* for (var i = 0; i < 2; i = i + 1) print i;
SrcFor ==
    <<"for", "(", "var", "i", "=", "0", ";", "i", "<", "2", ";", "i", "=", "i", "+", "1", ")",
      "print", "i", ";">>

\* the clauses of the explored `for` loops: the initializer is absent, a
\* declaration or an expression statement; the condition and the increment
\* are absent or present
ForInitializers == {"none", "var", "expr"}

ForInit(init) ==
    CASE init = "var" -> <<"var", "i", "=", "0">>
      [] init = "expr" -> <<"i", "=", "0">>
      [] OTHER -> <<>>

ForCond(cond) == IF cond THEN <<"i", "<", "2">> ELSE <<>>

ForInc(inc) == IF inc THEN <<"i", "=", "i", "+", "1">> ELSE <<>>

\* { if (i == 2) return 5; print i; } and, where the loop has no increment,
\* { if (i == 2) return 5; print i; i = i + 1; }
ForLoopBody(inc) ==
    <<"{", "if", "(", "i", "==", "2", ")", "return", "5", ";", "print", "i", ";">>
    \o (IF inc THEN <<>> ELSE <<"i", "=", "i", "+", "1", ";">>) \o <<"}">>

\* var i = 0; fun f() { for (init; cond; inc) body return 3; } print f(); print i;
SrcForLoop(init, cond, inc) ==
    <<"var", "i", "=", "0", ";", "fun", "f", "(", ")", "{", "for", "(">>
    \o ForInit(init) \o <<";">> \o ForCond(cond) \o <<";">> \o ForInc(inc) \o <<")">>
    \o ForLoopBody(inc)
    \o <<"return", "3", ";", "}", "print", "f", "(", ")", ";", "print", "i", ";">>

\* var i = 0; fun f() { { init; while (cond) { body inc; } } return 3; } print f(); print i;
SrcForAsWhile(init, cond, inc) ==
    <<"var", "i", "=", "0", ";", "fun", "f", "(", ")", "{", "{">>
    \o (IF init = "none" THEN <<>> ELSE ForInit(init) \o <<";">>)
    \o <<"while", "(">> \o (IF cond THEN ForCond(cond) ELSE <<"true">>) \o <<")", "{">>
    \o ForLoopBody(inc)
    \o (IF inc THEN ForInc(inc) \o <<";">> ELSE <<>>)
    \o <<"}", "}", "return", "3", ";", "}", "print", "f", "(", ")", ";", "print", "i", ";">>

ForSources ==
    {SrcForLoop(init, cond, inc) : init \in ForInitializers, cond \in BOOLEAN, inc \in BOOLEAN}
    \cup {SrcForAsWhile(init, cond, inc) :
            init \in ForInitializers, cond \in BOOLEAN, inc \in BOOLEAN}

\* fun f() { { print -"a"; } print "no"; } f(); var a = 5; print a;
SrcErrorInBlock ==
    <<"fun", "f", "(", ")", "{", "{", "print", "-", "\"a\"", ";", "}",
      "print", "\"no\"", ";", "}", "f", "(", ")", ";",
      "var", "a", "=", "5", ";", "print", "a", ";">>

\* var g = 0; { var a = 1; {^d print a; a = 3; print g; g = 4; }^d } and, with
\* a shadowing declaration,
\* var g = 0; { var a = 1; { var a = 2; {^d print a; a = 3; print g; g = 4; }^d } }
SrcResolve(d, shadowed) ==
    <<"var", "g", "=", "0", ";", "{", "var", "a", "=", "1", ";">>
    \o (IF shadowed THEN <<"{", "var", "a", "=", "2", ";">> ELSE <<>>)
    \o Rep(d, <<"{">>)
    \o <<"print", "a", ";", "a", "=", "3", ";", "print", "g", ";", "g", "=", "4", ";">>
    \o Rep(d, <<"}">>)
    \o (IF shadowed THEN <<"}">> ELSE <<>>) \o <<"}">>

\* fun f(a) { {^d print a; a = 3; }^d } f(1);
SrcResolveParam(d) ==
    <<"fun", "f", "(", "a", ")", "{">> \o Rep(d, <<"{">>)
    \o <<"print", "a", ";", "a", "=", "3", ";">>
    \o Rep(d, <<"}">>) \o <<"}", "f", "(", "1", ")", ";">>

\* class A { m() { {^d print this; }^d } }
SrcResolveThis(d) ==
    <<"class", "A", "{", "m", "(", ")", "{">> \o Rep(d, <<"{">>)
    \o <<"print", "this", ";">>
    \o Rep(d, <<"}">>) \o <<"}", "}">>

ResolveSources ==
    {SrcResolve(d, shadowed) : d \in 0..MaxDepth, shadowed \in BOOLEAN}
    \cup {SrcResolveParam(d) : d \in 0..MaxDepth}
    \cup {SrcResolveThis(d) : d \in 0..MaxDepth}

\* print ; print 1; print 2;
SrcSyncSemicolon == <<"print", ";", "print", "1", ";", "print", "2", ";">>

\* print ( 1 2 print 3; print 4;
SrcSyncKeyword ==
    <<"print", "(", "1", "2", "print", "3", ";", "print", "4", ";">>

\* print ( 1 print 2; print 3;
SrcSyncAtKeyword ==
    <<"print", "(", "1", "print", "2", ";", "print", "3", ";">>

\* { print ; print 1; } print 2;
SrcSyncInBlock ==
    <<"{", "print", ";", "print", "1", ";", "}", "print", "2", ";">>

\* { print 1 } print 2;
SrcSyncBrace == <<"{", "print", "1", "}", "print", "2", ";">>

SynchronizeSources ==
    {SrcSyncSemicolon, SrcSyncKeyword, SrcSyncAtKeyword, SrcSyncInBlock, SrcSyncBrace}

\* print 1; var b = 2; { var a = a; } print b;
SrcStaticErrorRuns ==
    <<"print", "1", ";", "var", "b", "=", "2", ";", "{", "var", "a", "=", "a", ";", "}",
      "print", "b", ";">>

\* class A { } var a = A(); a.n = 1; a.n = a.n + 1; print a.n;
SrcSetReadsSelf ==
    <<"class", "A", "{", "}", "var", "a", "=", "A", "(", ")", ";",
      "a", ".", "n", "=", "1", ";", "a", ".", "n", "=", "a", ".", "n", "+", "1", ";",
      "print", "a", ".", "n", ";">>

\* class A { one() { return 1; } } var a = A(); a.n = a.one(); print a.n;
SrcSetCallsSelf ==
    <<"class", "A", "{", "one", "(", ")", "{", "return", "1", ";", "}", "}",
      "var", "a", "=", "A", "(", ")", ";",
      "a", ".", "n", "=", "a", ".", "one", "(", ")", ";", "print", "a", ".", "n", ";">>

\* { var x = 1; { x = nil; print x; } }
SrcAssignNil ==
    <<"{", "var", "x", "=", "1", ";", "{", "x", "=", "nil", ";", "print", "x", ";", "}", "}">>

\* { var a = 1; print a; } var x = 1; x = nil; print x;
SrcAssignNilGlobal ==
    <<"{", "var", "a", "=", "1", ";", "print", "a", ";", "}",
      "var", "x", "=", "1", ";", "x", "=", "nil", ";", "print", "x", ";">>

\* var x = 1; x = nil; print x;
SrcAssignNilOnly ==
    <<"var", "x", "=", "1", ";", "x", "=", "nil", ";", "print", "x", ";">>

\* sources with a syntax error
\* print ; print 1;
SrcSyntaxPrint == <<"print", ";", "print", "1", ";">>

\* var 1 = 2; print 1;
SrcSyntaxVar == <<"var", "1", "=", "2", ";", "print", "1", ";">>

\* 1 = 2;
SrcSyntaxTarget == <<"1", "=", "2", ";">>

\* { print 1;
SrcSyntaxBlock == <<"{", "print", "1", ";">>

\* print 1
SrcSyntaxEnd == <<"print", "1">>

\* sources that the resolver rejects
\* { var a = a; }
SrcOwnInitializer == <<"{", "var", "a", "=", "a", ";", "}">>

\* { var a; var a; } print 1;
SrcRedeclare == <<"{", "var", "a", ";", "var", "a", ";", "}", "print", "1", ";">>

\* print this;
SrcThisOutside == <<"print", "this", ";">>

\* sources with a superclass
\* class A { m() { print 1; } } class B < A { } B().m();
SrcInherit ==
    <<"class", "A", "{", "m", "(", ")", "{", "print", "1", ";", "}", "}",
      "class", "B", "<", "A", "{", "}", "B", "(", ")", ".", "m", "(", ")", ";">>

\* class A { m() { print 1; } } class B < A { m() { print 2; } } B().m();
SrcOverride ==
    <<"class", "A", "{", "m", "(", ")", "{", "print", "1", ";", "}", "}",
      "class", "B", "<", "A", "{", "m", "(", ")", "{", "print", "2", ";", "}", "}",
      "B", "(", ")", ".", "m", "(", ")", ";">>

\* class A { m() { print 1; } }
\* class B < A { m() { print 2; } t() { super.m(); } } B().t();
SrcSuper ==
    <<"class", "A", "{", "m", "(", ")", "{", "print", "1", ";", "}", "}",
      "class", "B", "<", "A", "{", "m", "(", ")", "{", "print", "2", ";", "}",
      "t", "(", ")", "{", "super", ".", "m", "(", ")", ";", "}", "}",
      "B", "(", ")", ".", "t", "(", ")", ";">>

InheritanceSources == {SrcInherit, SrcOverride, SrcSuper}

\* fun p(x) { print x; return x; } fun f(a) { print 0; }
\* fun g() { print 3; return f; } g()(p(1), p(2));
SrcArityOrder ==
    <<"fun", "p", "(", "x", ")", "{", "print", "x", ";", "return", "x", ";", "}",
      "fun", "f", "(", "a", ")", "{", "print", "0", ";", "}",
      "fun", "g", "(", ")", "{", "print", "3", ";", "return", "f", ";", "}",
      "g", "(", ")", "(", "p", "(", "1", ")", ",", "p", "(", "2", ")", ")", ";">>

\* class C { init(a) { print 0; } } C(); print clock(1);
SrcArityInit ==
    <<"class", "C", "{", "init", "(", "a", ")", "{", "print", "0", ";", "}", "}",
      "C", "(", ")", ";", "print", "clock", "(", "1", ")", ";">>

\* print !nil; print !false; print !true; print !0; print !"";
SrcBang ==
    <<"print", "!", "nil", ";", "print", "!", "false", ";", "print", "!", "true", ";",
      "print", "!", "0", ";", "print", "!", "\"\"", ";">>

\* fun p(x) { print x; return x; } print p(1) or p(2); print p(nil) or p(2);
\* print p(false) and p(2); print p(0) and p(""); print nil or false;
SrcShortCircuit ==
    <<"fun", "p", "(", "x", ")", "{", "print", "x", ";", "return", "x", ";", "}",
      "print", "p", "(", "1", ")", "or", "p", "(", "2", ")", ";",
      "print", "p", "(", "nil", ")", "or", "p", "(", "2", ")", ";",
      "print", "p", "(", "false", ")", "and", "p", "(", "2", ")", ";",
      "print", "p", "(", "0", ")", "and", "p", "(", "\"\"", ")", ";",
      "print", "nil", "or", "false", ";">>

\* class A { } var a = A(); a.x = a or 1; print a.x;
SrcSetLogical ==
    <<"class", "A", "{", "}", "var", "a", "=", "A", "(", ")", ";",
      "a", ".", "x", "=", "a", "or", "1", ";", "print", "a", ".", "x", ";">>

\* print 1 == 1; print "a" == "a"; print nil == nil; print true == false;
\* print 1 == "a"; print nil == false; print 1 != 2; print 1 != 1;
SrcEqual ==
    <<"print", "1", "==", "1", ";", "print", "\"a\"", "==", "\"a\"", ";",
      "print", "nil", "==", "nil", ";", "print", "true", "==", "false", ";",
      "print", "1", "==", "\"a\"", ";", "print", "nil", "==", "false", ";",
      "print", "1", "!=", "2", ";", "print", "1", "!=", "1", ";">>

\* fun f() { } class A { } var a = A(); print f == f; print A == A; print a == a;
\* print a == A(); print f != f;
SrcEqualSelf ==
    <<"fun", "f", "(", ")", "{", "}", "class", "A", "{", "}",
      "var", "a", "=", "A", "(", ")", ";",
      "print", "f", "==", "f", ";", "print", "A", "==", "A", ";",
      "print", "a", "==", "a", ";", "print", "a", "==", "A", "(", ")", ";",
      "print", "f", "!=", "f", ";">>

OperatorSources == {SrcBang, SrcShortCircuit, SrcSetLogical, SrcEqual, SrcEqualSelf}

\* the forms of a returned expression: literal, variable, call, `this`,
\* binary, grouping
ReturnedValues ==
    {<<"1">>, <<"\"a\"">>, <<"true">>, <<"a">>, <<"f", "(", ")">>, <<"this">>,
     <<"1", "+", "2">>, <<"(", "1", ")">>}

\* class A { init() { return <value>; } }
SrcInitReturns(value) ==
    <<"class", "A", "{", "init", "(", ")", "{", "return">> \o value \o <<";", "}", "}">>

\* class A { init() { {^d return; }^d } } print A();
SrcInitReturnsBare(d) ==
    <<"class", "A", "{", "init", "(", ")", "{">> \o Rep(d, <<"{">>) \o <<"return", ";">>
    \o Rep(d, <<"}">>) \o <<"}", "}", "print", "A", "(", ")", ";">>

\* {^d return 1; }^d
SrcReturnOutside(d) == Rep(d, <<"{">>) \o <<"return", "1", ";">> \o Rep(d, <<"}">>)

ReturnSources ==
    {SrcInitReturns(value) : value \in ReturnedValues}
    \cup {SrcInitReturnsBare(d) : d \in 0..MaxDepth}
    \cup {SrcReturnOutside(d) : d \in 0..MaxDepth}

\* the declarations of the name a: var a; fun a() { } class a { }
Declarations ==
    {<<"var", "a", ";">>, <<"fun", "a", "(", ")", "{", "}">>, <<"class", "a", "{", "}">>}

\* {^(d+1) <first> <second> }^(d+1)
SrcSameScope(d, first, second) ==
    Rep(d + 1, <<"{">>) \o first \o second \o Rep(d + 1, <<"}">>)

\* { <first> {^(d+1) <second> }^(d+1) }
SrcNestedScope(d, first, second) ==
    <<"{">> \o first \o Rep(d + 1, <<"{">>) \o second \o Rep(d + 1, <<"}">>) \o <<"}">>

\* <first> <second>
SrcGlobalScope(first, second) == first \o second

\* fun f(a, a) { }
SrcSameParams == <<"fun", "f", "(", "a", ",", "a", ")", "{", "}">>

\* fun f(a) { <second> }
SrcParamAndLocal(second) == <<"fun", "f", "(", "a", ")", "{">> \o second \o <<"}">>

\* fun f(a) { {^(d+1) <second> }^(d+1) }
SrcParamShadowed(d, second) ==
    <<"fun", "f", "(", "a", ")", "{">> \o Rep(d + 1, <<"{">>) \o second
    \o Rep(d + 1, <<"}">>) \o <<"}">>

RedeclaringSources ==
    {SrcSameScope(d, first, second) :
        d \in 0..MaxDepth, first \in Declarations, second \in Declarations}
    \cup {SrcSameParams}
    \cup {SrcParamAndLocal(second) : second \in Declarations}

ShadowingSources ==
    {SrcNestedScope(d, first, second) :
        d \in 0..MaxDepth, first \in Declarations, second \in Declarations}
    \cup {SrcGlobalScope(first, second) : first \in Declarations, second \in Declarations}
    \cup {SrcParamShadowed(d, second) : d \in 0..MaxDepth, second \in Declarations}

\* the initializers that read a
ReadingInitializers ==
    {<<"a">>, <<"1", "+", "a">>, <<"(", "a", ")">>, <<"!", "a">>, <<"a", "==", "1">>,
     <<"a", "or", "1">>, <<"clock", "(", "a", ")">>, <<"a", ".", "x">>}

\* { var a = 1; {^d var a = <initializer>; }^d }
SrcReadsItself(d, initializer) ==
    <<"{", "var", "a", "=", "1", ";">> \o Rep(d, <<"{">>) \o <<"var", "a", "=">>
    \o initializer \o <<";">> \o Rep(d, <<"}">>) \o <<"}">>

\* {^(d+1) var a = 1; print a; var b = a; print b; }^(d+1)
SrcReadsDefined(d) ==
    Rep(d + 1, <<"{">>)
    \o <<"var", "a", "=", "1", ";", "print", "a", ";", "var", "b", "=", "a", ";",
         "print", "b", ";">>
    \o Rep(d + 1, <<"}">>)

InitializerSources ==
    {SrcReadsItself(d, initializer) :
        d \in 1..MaxDepth, initializer \in ReadingInitializers}
    \cup {SrcReadsDefined(d) : d \in 0..MaxDepth}

SyntaxErrorSources ==
    {SrcSyntaxPrint, SrcSyntaxVar, SrcSyntaxTarget, SrcSyntaxBlock, SrcSyntaxEnd}

Sources ==
    {SrcShadow, SrcAssignParam, SrcReturnNested, SrcReturnBare, SrcReturnInit,
     SrcReturnTop, SrcRuntimeError, SrcRuntimeErrorLast, SrcInit, SrcFields,
     SrcMethodThis, SrcThisWrite, SrcThisRead, SrcFieldShadowsMethod, SrcSetSelf,
     SrcCalls, SrcArity, SrcOperators, SrcWhile, SrcFor,
     SrcOwnInitializer, SrcRedeclare, SrcThisOutside}
    \cup SyntaxErrorSources
    \cup InheritanceSources
    \cup OperatorSources
    \cup ReturnSources
    \cup RedeclaringSources \cup ShadowingSources
    \cup InitializerSources
    \cup {SrcArityOrder, SrcArityInit}
    \cup ForSources
    \cup {SrcErrorInBlock}
    \cup ResolveSources
    \cup SynchronizeSources
    \cup {SrcStaticErrorRuns, SrcSetReadsSelf, SrcSetCallsSelf}
    \cup {SrcAssignNil, SrcAssignNilGlobal, SrcAssignNilOnly}
    \cup {SrcRead(d) : d \in 0..MaxDepth}
    \cup {SrcAssign(d) : d \in 0..MaxDepth}
    \cup {SrcCounter(d, k) : d \in 0..MaxDepth, k \in 1..MaxCalls}
    \cup {SrcGlobalCounter(k) : k \in 1..MaxCalls}
    \cup {SrcShared(d) : d \in 0..MaxDepth}
    \cup {SrcLexicalGlobal(d) : d \in 0..MaxDepth}
    \cup {SrcLexicalBlock(d) : d \in 0..MaxDepth}
    \cup {SrcReturnLoop(d) : d \in 0..MaxDepth}

Init ==
    /\ pc = "parse"
    /\ tokens \in {scan_tokens(source) : source \in Sources}
    /\ current = 0
    /\ reported = <<>>
    /\ stmts = <<>>
    /\ had_error = FALSE
    /\ had_runtime_error = FALSE
    /\ locals = <<>>
    /\ envs = <<[enclosing |-> 0, values |-> ("clock" :> 1)]>>
    /\ cells = <<NativeFunctionObj(0)>>
    /\ environment = globals
    /\ idx = 0
    /\ ctrl = Idle
    /\ kont = <<>>
    /\ output = <<>>

Next ==
    \/ ParseNext \/ ParsePush \/ ParseEnd \/ Declaration \/ Declared
    \/ Synchronize \/ ClassDeclaration \/ Method \/ Function \/ FunctionBody
    \/ Block \/ BlockPush \/ IfStatement \/ IfCondition \/ ThenBranch
    \/ ElseBranch \/ ForStatement \/ ForInitializer \/ ForCondition
    \/ ForIncrement \/ ForBody \/ PrintStatement \/ PrintValue
    \/ ReturnStatement \/ ReturnValue \/ WhileStatement \/ WhileCondition
    \/ WhileBody \/ BlockStatement \/ BlockStatementEnd \/ ExpressionStatement
    \/ ExpressionValue \/ VarDeclaration \/ VarInitializer \/ Expression
    \/ Assignment \/ AssignmentTarget \/ AssignmentValue \/ LeftAssociative
    \/ LeftOperand \/ RightOperand \/ UnaryOperator \/ UnaryRight \/ CallPrimary
    \/ CallLoop \/ Argument \/ Primary \/ GroupingEnd \/ ParsePropagate
    \/ Resolve \/ InterpretNext \/ InterpretEnd \/ Abort
    \/ VisitLiteral \/ VisitGrouping \/ VisitVariable \/ VisitThis
    \/ VisitAssign \/ ResumeAssign
    \/ VisitBinary \/ ResumeBinaryLeft \/ ResumeBinaryRight
    \/ VisitLogical \/ ResumeLogical
    \/ VisitUnary \/ ResumeUnary
    \/ VisitGet \/ ResumeGet
    \/ VisitSet \/ ResumeSetObject \/ ResumeSetValue
    \/ VisitCall \/ ResumeCallCallee \/ ResumeCallArgument
    \/ CallBorrowed \/ CallNotCallable \/ CallFunction \/ CallNativeFunction \/ CallClass
    \/ ResumeFunctionCall \/ CatchReturn \/ ResumeClassCall
    \/ ExecExpr \/ ResumeExpr \/ ExecIf \/ ResumeIf \/ ExecPrint \/ ResumePrint
    \/ ExecReturn \/ ResumeReturn \/ ExecVar \/ ResumeVar
    \/ ExecBlock \/ ResumeBlock \/ LeaveBlock
    \/ ExecClass \/ ExecWhile \/ ResumeWhile \/ ResumeWhileBody \/ ExecFunction
    \/ Propagate

Spec == Init /\ [][Next]_vars

(***************************************************************************)
(* Properties.                                                             *)
(***************************************************************************)
(***************************************************************************)
(* Scanner::scan_tokens on its own: ctrl holds the Scanner, and every      *)
(* step is one turn of its loop.                                           *)
(***************************************************************************)
MaxSource == 3

\* characters of every arm of scan_single_token, and one of two bytes
ScannerAlphabet ==
    {"(", "!", "=", "/", " ", "\n", "\"", "1", ".", "a", "@", "U+00E9"}

ScannerSources ==
    UNION {[1..n -> ScannerAlphabet] : n \in 0..MaxSource}

\* this.a=this.a
ProgramThis ==
    <<"t", "h", "i", "s", ".", "a", "=", "t", "h", "i", "s", ".", "a">>

\* a=a on two lines
ProgramLines == <<"a", "=", "a", "\n", "a", "=", "a">>

\* a string over two lines between two identifiers
ProgramString == <<"a", " ", "\"", "a", "\n", "a", "\"", " ", "a">>

\* // a, and a on the next line
ProgramComment == <<"a", "/", "/", "a", "\n", "a">>

ScannerPrograms == {ProgramThis, ProgramLines, ProgramString, ProgramComment}

ScannerInit ==
    /\ pc = "scan"
    /\ ctrl \in {NewScanner(source) : source \in ScannerSources \cup ScannerPrograms}
    /\ tokens = <<>>
    /\ current = 0
    /\ reported = <<>>
    /\ stmts = <<>>
    /\ had_error = FALSE
    /\ had_runtime_error = FALSE
    /\ locals = <<>>
    /\ envs = <<>>
    /\ cells = <<>>
    /\ environment = globals
    /\ idx = 0
    /\ kont = <<>>
    /\ output = <<>>

\* while !self.is_at_end() { self.start = self.current; self.scan_single_token(); }
ScanSingleToken ==
    /\ pc = "scan"
    /\ ~ScannerIsAtEnd(ctrl)
    /\ ctrl' = scan_single_token(ctrl)
    /\ pc' = IF ctrl'.panicked THEN "panicked" ELSE "scan"
    /\ reported' = ctrl'.reported
    /\ UNCHANGED <<tokens, current, stmts, had_error, had_runtime_error, locals,
                   envs, cells, environment, idx, kont, output>>

\* self.tokens.push(Eof); &self.tokens
ScanEof ==
    /\ pc = "scan"
    /\ ScannerIsAtEnd(ctrl)
    /\ ctrl' = ScannerEof(ctrl)
    /\ tokens' = ctrl'.tokens
    /\ pc' = "scanned"
    /\ UNCHANGED <<current, reported, stmts, had_error, had_runtime_error, locals,
                   envs, cells, environment, idx, kont, output>>

ScannerNext == ScanSingleToken \/ ScanEof

SpecScanner == ScannerInit /\ [][ScannerNext]_vars

(***************************************************************************)
(* Environment::get and Environment::assign on their own: envs is a chain  *)
(* of environments, each enclosed by the one before it, environment is     *)
(* the one that get and assign are called on, and ctrl holds the last      *)
(* call and its Result.                                                    *)
(***************************************************************************)
MaxChain == 3

ChainNames == {"a", "b"}
ChainValues == {1, 2}

\* the HashMaps from some of the names to a value
ChainMaps == UNION {[names -> ChainValues] : names \in SUBSET ChainNames}

Chains ==
    UNION {{[k \in 1..n |-> [enclosing |-> k - 1, values |-> maps[k]]] :
                maps \in [1..n -> ChainMaps]} : n \in 1..MaxChain}

Name(lexeme) == Token("Identifier", lexeme, None, 1, 1)

EnvironmentInit ==
    /\ pc = "environment"
    /\ envs \in Chains
    /\ environment \in 1..MaxChain /\ environment <= Len(envs)
    /\ ctrl = Idle
    /\ tokens = <<>>
    /\ current = 0
    /\ reported = <<>>
    /\ stmts = <<>>
    /\ had_error = FALSE
    /\ had_runtime_error = FALSE
    /\ locals = <<>>
    /\ cells = <<>>
    /\ idx = 0
    /\ kont = <<>>
    /\ output = <<>>

\* self.get(name)
EnvironmentGet ==
    /\ pc = "environment"
    /\ \E lexeme \in ChainNames :
        LET r == EnvGet(envs, environment, Name(lexeme)) IN
        ctrl' = [mode |-> "get", name |-> lexeme, ok |-> r.ok, cell |-> r.cell]
    /\ UNCHANGED <<run, envs, cells, environment, idx, kont, output>>

\* self.assign(name, value)
EnvironmentAssign ==
    /\ pc = "environment"
    /\ \E lexeme \in ChainNames, value \in ChainValues :
        LET r == EnvAssign(envs, environment, Name(lexeme), value) IN
        /\ ctrl' = [mode |-> "assign", name |-> lexeme, ok |-> r.ok, cell |-> value]
        /\ envs' = r.envs
    /\ UNCHANGED <<run, cells, environment, idx, kont, output>>

EnvironmentNext == EnvironmentGet \/ EnvironmentAssign

SpecEnvironment == EnvironmentInit /\ [][EnvironmentNext]_vars

(***************************************************************************)
(* Parser::parse on its own, on the tokens of the sources of above and on  *)
(* every sequence of up to MaxTokens words, well formed or not.            *)
(***************************************************************************)
MaxTokens == 3

ParserAlphabet ==
    {"{", "}", "(", ")", ";", "=", ".", "1", "a", "print", "var", "class", "fun", "for"}

TokenSources == UNION {[1..n -> ParserAlphabet] : n \in 0..MaxTokens}

ParserInit ==
    /\ pc = "parse"
    /\ tokens \in {scan_tokens(source) : source \in Sources \cup TokenSources}
    /\ current = 0
    /\ reported = <<>>
    /\ stmts = <<>>
    /\ had_error = FALSE
    /\ had_runtime_error = FALSE
    /\ locals = <<>>
    /\ envs = <<[enclosing |-> 0, values |-> ("clock" :> 1)]>>
    /\ cells = <<NativeFunctionObj(0)>>
    /\ environment = globals
    /\ idx = 0
    /\ ctrl = Idle
    /\ kont = <<>>
    /\ output = <<>>

ParserNext ==
    \/ ParseNext \/ ParsePush \/ ParseEnd \/ Declaration \/ Declared
    \/ Synchronize \/ ClassDeclaration \/ Method \/ Function \/ FunctionBody
    \/ Block \/ BlockPush \/ IfStatement \/ IfCondition \/ ThenBranch
    \/ ElseBranch \/ ForStatement \/ ForInitializer \/ ForCondition
    \/ ForIncrement \/ ForBody \/ PrintStatement \/ PrintValue
    \/ ReturnStatement \/ ReturnValue \/ WhileStatement \/ WhileCondition
    \/ WhileBody \/ BlockStatement \/ BlockStatementEnd \/ ExpressionStatement
    \/ ExpressionValue \/ VarDeclaration \/ VarInitializer \/ Expression
    \/ Assignment \/ AssignmentTarget \/ AssignmentValue \/ LeftAssociative
    \/ LeftOperand \/ RightOperand \/ UnaryOperator \/ UnaryRight \/ CallPrimary
    \/ CallLoop \/ Argument \/ Primary \/ GroupingEnd \/ ParsePropagate

SpecParser == ParserInit /\ [][ParserNext]_vars

\* the run is the run of this source
Runs(source) == tokens = scan_tokens(source)

\* the run is over, one way or the other
Over == pc \in {"done", "panicked"}

\* the environment d parent-links above env binds name
Binds(E, env, d, name) ==
    LET a == Hop(E, env, d) IN
    a # PANIC /\ contains_key(E[a].values, name)

\* C1: in a program that the parser and the resolver accept, whenever a
\* variable, a `this` or an assignment that has a depth d in the depth map
\* is evaluated, the environment d parent-links above the current one binds
\* the name, and the lookup of a variable or of `this` does not panic.
C1_ResolvedLookupFinds ==
    (Running /\ reported = <<>>) =>
        /\ (ctrl.mode = "eval" /\ ctrl.e.kind = "Variable" /\ contains_key(locals, ctrl.e)) =>
                /\ Binds(envs, environment, locals[ctrl.e], ctrl.e.name.lexeme)
                /\ get_at(envs, environment, locals[ctrl.e], ctrl.e.name.lexeme) # PANIC
        /\ (ctrl.mode = "eval" /\ ctrl.e.kind = "This" /\ contains_key(locals, ctrl.e)) =>
                /\ Binds(envs, environment, locals[ctrl.e], ctrl.e.keyword.lexeme)
                /\ get_at(envs, environment, locals[ctrl.e], ctrl.e.keyword.lexeme) # PANIC
        /\ (Returned("Assign") /\ contains_key(locals, Top.e)) =>
                Binds(envs, environment, locals[Top.e], Top.e.name.lexeme)

\* C2: an assignment resolved at depth d (0 included) puts the value under
\* the name in the environment d parent-links above the current one, leaves
\* every other environment as it was, and yields the value without failing.
C2_AssignAtDepth ==
    [][(Returned("Assign") /\ contains_key(locals, Top.e)) =>
            LET a == Hop(envs, environment, locals[Top.e]) IN
            /\ a # PANIC
            /\ ctrl' = Ret(ctrl.v)
            /\ envs' = [envs EXCEPT ![a].values = insert(@, Top.e.name.lexeme, ctrl.v)]
      ]_vars

C4_LexicalScope ==
    \A d \in 0..MaxDepth :
        /\ (Over /\ Runs(SrcLexicalGlobal(d))) =>
                pc = "done" /\ output = <<"global", "global">>
        /\ (Over /\ Runs(SrcLexicalBlock(d))) =>
                pc = "done" /\ output = <<"global", "global">>

\* the function was called again after the declaration of the second `a`
C4_Witness ==
    /\ pc = "done"
    /\ \E d \in 0..MaxDepth : Runs(SrcLexicalGlobal(d)) \/ Runs(SrcLexicalBlock(d))
    /\ Len(output) = 2

\* C5: when a top-level statement ends in a runtime error, the run ends
\* there, no later statement is visited, and the runtime-error flag is set.
C5_RuntimeErrorAborts ==
    [][(Running /\ kont = <<>> /\ ctrl.mode = "err" /\ ctrl.value = 0) =>
            (pc' = "done" /\ idx' = idx /\ had_runtime_error')]_vars

\* C6: a run in which the parser reported a syntax error ends with
\* had_error set.
C6_SyntaxErrorSetsFlag ==
    (Over /\ reported # <<>>) => had_error

\* as long as the signal of a `return` is under way, nothing is executed
\* and one pending frame after the other is dropped, loops included, up to
\* the first frame of a function call
Unwinds ==
    /\ UNCHANGED <<output, cells, envs, idx>>
    /\ kont' = Pop
    /\ Top.kind # "FunctionCall" => ctrl' = ctrl

ReturnUnderWay == Running /\ ctrl.mode = "err" /\ ctrl.value # 0 /\ kont # <<>>

C8_ClassCallYieldsInitialized ==
    [][Returned("ClassCall") =>
            /\ ctrl'.mode = "ret"
            /\ cells'[ctrl'.v].tag = "Instance"
            /\ \A name \in DOMAIN cells[ctrl.v].i.fields :
                    /\ contains_key(cells'[ctrl'.v].i.fields, name)
                    /\ cells'[ctrl'.v].i.fields[name] = cells[ctrl.v].i.fields[name]
      ]_vars

\* C9: a property read of an instance yields the field of that name if
\* there is one; otherwise, if the class has a method of that name, a
\* function whose closure binds `this` to the instance.
C9_GetBindsMethod ==
    [][(Returned("Get") /\ CanBorrow(Pop, ctrl.v) /\ cells[ctrl.v].tag = "Instance") =>
            LET instance == cells[ctrl.v].i
                name == Top.e.name.lexeme
            IN  /\ contains_key(instance.fields, name) =>
                        ctrl' = Ret(instance.fields[name])
                /\ (/\ ~contains_key(instance.fields, name)
                    /\ find_method(cells, instance.klass, name) # None) =>
                        /\ ctrl'.mode = "ret"
                        /\ cells'[ctrl'.v].tag = "Function"
                        /\ LET closure == envs'[cells'[ctrl'.v].f.closure] IN
                           /\ contains_key(closure.values, "this")
                           /\ cells'[closure.values["this"]] = cells[ctrl.v]
      ]_vars

\* C10: `this` in a method is the receiver: a field that a method assigns
\* through `this` is read afterwards through the variable that holds the
\* instance, and a field assigned through the variable is read through
\* `this`.
C10_ThisIsReceiver ==
    /\ (Over /\ Runs(SrcThisWrite)) => pc = "done" /\ output = <<"1">>
    /\ (Over /\ Runs(SrcThisRead)) => pc = "done" /\ output = <<"2">>

\* C11: method lookup follows the superclass chain from the class itself:
\* an instance of a subclass without a definition of its own gets the
\* method of the superclass, and the definition of the subclass overrides
\* the one of the superclass.
C11_LookupWalksSuperclasses ==
    /\ (Over /\ Runs(SrcInherit)) =>
            pc = "done" /\ reported = <<>> /\ output = <<"1">>
    /\ (Over /\ Runs(SrcOverride)) =>
            pc = "done" /\ reported = <<>> /\ output = <<"2">>

\* C12: `super.m` in a method of B, whose superclass is A, is the m of A
\* bound to the current instance, so that `super.m()` runs the method of A.
C12_SuperStartsAtSuperclass ==
    (Over /\ Runs(SrcSuper)) =>
        pc = "done" /\ reported = <<>> /\ output = <<"1">>

\* the arity of a callable value
ArityOf(object) ==
    CASE object.tag = "Function" -> FunctionArity(object.f)
      [] object.tag = "NativeFunction" -> object.arity
      [] object.tag = "Class" -> ClassArity(cells, object.c)

\* the callee and the arguments of a call are evaluated, the callee is
\* callable and the number of arguments is not its arity
ArityMismatch ==
    /\ Applying
    /\ CanBorrow(Pop, Top.callee)
    /\ cells[Top.callee].tag \in {"Function", "NativeFunction", "Class"}
    /\ Len(Top.arguments) # ArityOf(cells[Top.callee])

\* C13: a call with a number of arguments that is not the arity of the
\* callee is a runtime error, raised after the callee and then the
\* arguments were evaluated from left to right; no environment and no
\* instance is created and nothing of the body or the initializer runs.
C13_ArityMismatchFails ==
    /\ [][ArityMismatch =>
            /\ ctrl' = ArityError(ArityOf(cells[Top.callee]), Top.arguments)
            /\ kont' = Pop
            /\ UNCHANGED <<envs, cells, environment, output>>]_vars
    /\ []((Over /\ Runs(SrcArityOrder)) => pc = "done" /\ output = <<"3", "1", "2">>)
    /\ []((Over /\ Runs(SrcArityInit)) => pc = "done" /\ output = <<>>)

\* the call of a function with too many arguments, callee and arguments
\* evaluated
C13_Witness ==
    ArityMismatch /\ Runs(SrcArityOrder) /\ output = <<"3", "1", "2">>

\* nil and false, the two values that are not truthy
Falsey(object) == object = NilObj \/ object = BoolObj(FALSE)

\* C14: `!` yields true for nil and for false, and false for every other
\* value.
C14_BangNegatesTruthiness ==
    [][(Returned("Unary") /\ Top.e.operator.token_type = "Bang") =>
            /\ ctrl'.mode = "ret"
            /\ cells'[ctrl'.v] = BoolObj(Falsey(cells[ctrl.v]))]_vars

\* C15: `or` yields its left operand, as it is and without evaluating the
\* right one, when the left operand is truthy, and `and` when it is not;
\* otherwise the right operand is evaluated and its value is the result.
C15_LogicalShortCircuits ==
    /\ [][Returned("Logical") =>
            /\ ctrl' = IF (Top.e.operator.token_type = "Or") = ~Falsey(cells[ctrl.v])
                       THEN Ret(ctrl.v) ELSE Eval(Top.e.right)
            /\ kont' = Pop
            /\ UNCHANGED <<cells, envs, environment, output>>]_vars
    /\ []((Over /\ Runs(SrcShortCircuit)) =>
            /\ pc = "done"
            /\ output = <<"1", "1", "nil", "2", "2", "false", "false",
                          "0", "", "", "false">>)
    /\ []((Over /\ Runs(SrcSetLogical)) => pc = "done" /\ output = <<"A instance">>)

\* C16: `==` is true exactly of two values of the same tag that are equal
\* by content (numbers, strings, booleans, nil) or are the same object
\* (functions, classes, instances); `!=` is its negation.
C16_EqualityByContentOrIdentity ==
    /\ (Over /\ Runs(SrcEqual)) =>
            /\ pc = "done"
            /\ output = <<"true", "true", "true", "false", "false", "false",
                          "true", "false">>
    /\ (Over /\ Runs(SrcEqualSelf)) =>
            /\ pc = "done"
            /\ output = <<"true", "true", "true", "false", "false">>

\* the resolver reported this one message
Rejected(message) == reported = <<message>> /\ had_error

\* nothing was reported
Accepted == reported = <<>> /\ ~had_error

\* C17: a `return` with a value in `init` is a static error whatever the
\* form of the value, and so is a `return` outside every function; a bare
\* `return;` in `init` is accepted.
C17_InitializerReturnsNothing ==
    Over =>
        /\ \A value \in ReturnedValues :
                Runs(SrcInitReturns(value)) =>
                    Rejected("Can't return a value from an initializer.")
        /\ \A d \in 0..MaxDepth :
                /\ Runs(SrcReturnOutside(d)) => Rejected("Can't return from top-level code.")
                /\ Runs(SrcInitReturnsBare(d)) => Accepted

\* C18: the declaration of a name that the same local scope declares
\* already (a variable, a function, a class or a parameter) is a static
\* error; in a nested scope and at the top level it is accepted.
C18_RedeclarationInSameScope ==
    Over =>
        /\ \A source \in RedeclaringSources :
                Runs(source) => Rejected("Already a variable with this name in this scope.")
        /\ \A source \in ShadowingSources : Runs(source) => Accepted

\* a run that was rejected, and one with a shadowing declaration accepted
C18_Witness ==
    /\ Over
    /\ \/ \E source \in RedeclaringSources : Runs(source) /\ had_error
       \/ \E source \in ShadowingSources : Runs(source) /\ ~had_error

\* C19: in a local scope, a read of the variable in the initializer of its
\* own declaration is a static error; after the declaration the name is
\* read without error.
C19_OwnInitializer ==
    Over =>
        /\ Runs(SrcOwnInitializer) =>
                Rejected("Can't read local variable in its own initializer.")
        /\ \A d \in 1..MaxDepth, initializer \in ReadingInitializers :
                Runs(SrcReadsItself(d, initializer)) =>
                    Rejected("Can't read local variable in its own initializer.")
        /\ \A d \in 0..MaxDepth :
                Runs(SrcReadsDefined(d)) =>
                    (Accepted /\ pc = "done" /\ output = <<"1", "1">>)

\* a run that was rejected for the read, and one that read the name after
\* its declaration
C19_Witness ==
    /\ Over
    /\ \/ \E d \in 1..MaxDepth, initializer \in ReadingInitializers :
            Runs(SrcReadsItself(d, initializer)) /\ had_error
       \/ \E d \in 0..MaxDepth : Runs(SrcReadsDefined(d)) /\ Len(output) = 2

\* C20: scan_tokens does not fail on any source, be it with unexpected
\* characters, an unterminated string or characters of more than one byte,
\* and what it returns ends with the one Eof token of the sequence.
C20_ScanEndsWithEof ==
    /\ pc # "panicked"
    /\ pc = "scanned" =>
            /\ tokens # <<>>
            /\ tokens[Len(tokens)].token_type = "Eof"
            /\ \A i \in 1..(Len(tokens) - 1) : tokens[i].token_type # "Eof"

\* what `{ init; while (cond) { body inc; } }` prints in f, then f's value
\* and the global i: the loop prints 0 and 1; with a condition it ends and f
\* returns 3, without one the body returns 5; a declared i leaves the
\* global at 0
ForOutput(init, cond, inc) ==
    <<"0", "1", IF cond THEN "3" ELSE "5", IF init = "var" THEN "0" ELSE "2">>

\* s is what for_statement builds from the three clauses and the body
ForShape(s, init, cond, inc) ==
    LET w == IF init # "none" THEN s.statements[2] ELSE s
        b == IF inc THEN w.body.statements[1] ELSE w.body
    IN  /\ init # "none" =>
                /\ s.kind = "Block" /\ Len(s.statements) = 2
                /\ s.statements[1].kind = (IF init = "var" THEN "Var" ELSE "Expr")
        /\ w.kind = "While"
        /\ IF cond
           THEN w.condition.kind = "Binary" /\ w.condition.operator.token_type = "Less"
           ELSE w.condition = Literal(BoolObj(TRUE))
        /\ inc =>
                /\ w.body.kind = "Block" /\ Len(w.body.statements) = 2
                /\ w.body.statements[2].kind = "Expr"
                /\ w.body.statements[2].e.kind = "Assign"
        /\ b.kind = "Block" /\ b.statements[1].kind = "If"
        /\ b.statements[2].kind = "Print"

C22_EnvironmentRestored ==
    /\ [][Running =>
            \A k \in 1..Len(kont') :
                (kont'[k].kind = "Block" /\ (k > Len(kont) \/ kont[k].kind # "Block")) =>
                    kont'[k].previous = environment]_vars
    /\ [][(Running /\ kont # <<>>) =>
            /\ \A k \in 1..(Len(kont) - 1) : k <= Len(kont') => kont'[k] = kont[k]
            /\ (Top.kind = "Block" /\ Len(kont') >= Len(kont)) =>
                    /\ kont'[Len(kont)].kind = "Block"
                    /\ kont'[Len(kont)].previous = Top.previous
            /\ (Top.kind = "Block" /\ Len(kont') < Len(kont)) =>
                    environment' = Top.previous]_vars
    /\ []((Running /\ kont = <<>>) => environment = globals)
    /\ []((Over /\ Runs(SrcErrorInBlock)) => pc = "done" /\ output = <<"5">>)

\* a runtime error leaves a block, nested in the body of a function, whose
\* environment is still the current one
C22_Witness ==
    /\ Failed("Block") /\ ctrl.value = 0
    /\ environment # Top.previous
    /\ Len(SelectSeq(kont, LAMBDA frame : frame.kind = "Block")) >= 2
    /\ \E k \in 1..Len(kont) : kont[k].kind = "FunctionCall"

\* the resolver has just returned
Resolved == pc = "interpret" /\ idx = 0 /\ ctrl = Idle

\* the keys of the depth map of the given kind that name the given lexeme
Keys(kind, lexeme) ==
    {e \in DOMAIN locals :
        /\ e.kind = kind
        /\ (IF kind = "This" THEN e.keyword.lexeme ELSE e.name.lexeme) = lexeme}

\* the one occurrence of the given kind and lexeme has depth d
Depth(kind, lexeme, d) ==
    /\ Cardinality(Keys(kind, lexeme)) = 1
    /\ \A e \in Keys(kind, lexeme) : locals[e] = d

\* C23: a variable, an assignment or a `this` that stands d scopes inside
\* the innermost scope declaring its name (a block's declaration, also one
\* that shadows an outer declaration, a parameter, or the `this` of the
\* class scope) is recorded with depth exactly d, and a name that no scope
\* declares (a global) gets no entry in the depth map.
C23_DepthIsDistance ==
    Resolved =>
        /\ \A d \in 0..MaxDepth, shadowed \in BOOLEAN :
                Runs(SrcResolve(d, shadowed)) =>
                    /\ Accepted
                    /\ Depth("Variable", "a", d) /\ Depth("Assign", "a", d)
                    /\ Keys("Variable", "g") = {} /\ Keys("Assign", "g") = {}
                    /\ Cardinality(DOMAIN locals) = 2
        /\ \A d \in 0..MaxDepth :
                Runs(SrcResolveParam(d)) =>
                    /\ Accepted
                    /\ Depth("Variable", "a", d) /\ Depth("Assign", "a", d)
                    /\ Keys("Variable", "f") = {}
                    /\ Cardinality(DOMAIN locals) = 2
        /\ \A d \in 0..MaxDepth :
                Runs(SrcResolveThis(d)) =>
                    /\ Accepted
                    /\ Depth("This", "this", d + 1)
                    /\ Cardinality(DOMAIN locals) = 1

C23_Witness ==
    /\ Resolved /\ Runs(SrcResolve(MaxDepth, TRUE))
    /\ \E e \in DOMAIN locals : e.kind = "Variable" /\ locals[e] = MaxDepth

\* the parser has just returned
ParsedAll == pc = "resolve"

\* the numbers of the `print <number>;` statements of a statement list, those
\* of its blocks included, in source order
RECURSIVE Prints(_)
Prints(statements) ==
    IF statements = <<>> THEN <<>>
    ELSE LET s == Head(statements) IN
         (CASE s.kind = "Print" /\ s.e.kind = "Literal" -> <<s.e.value.n>>
            [] s.kind = "Block" -> Prints(s.statements)
            [] OTHER -> <<>>)
         \o Prints(Tail(statements))

\* where synchronize() may stop
Synchronized(T, P) ==
    \/ is_at_end(T, P)
    \/ previous(T, P).token_type = "Semicolon"
    \/ peek(T, P).token_type \in
            {"Class", "Fun", "Var", "For", "If", "While", "Print", "Return"}

\* declaration() has caught a syntax error
Synchronizing == Returning("declaration") /\ ~ctrl.ok

RECURSIVE Outward(_, _, _)
Outward(E, env, k) ==
    IF k = 0 \/ env = 0 THEN env ELSE Outward(E, E[env].enclosing, k - 1)

\* how far out the environments of the chain of env that define the name are
Defining(E, env, lexeme) ==
    {k \in 0..Len(E) :
        /\ Outward(E, env, k) # 0
        /\ lexeme \in DOMAIN E[Outward(E, env, k)].values}

\* the nearest of them
Nearest(E, env, lexeme) ==
    Outward(E, env, CHOOSE k \in Defining(E, env, lexeme) :
                        \A j \in Defining(E, env, lexeme) : k <= j)

\* C25: get returns the value that the nearest environment of the chain
\* defining the name binds to it, and an error exactly when none defines it;
\* assign rebinds the name in that nearest environment only, binds no name
\* that was unbound, and on the error leaves every environment as it was.
C25_NearestDefinition ==
    [][\A lexeme \in ChainNames :
        (pc = "environment" /\ ctrl'.name = lexeme) =>
            LET defined == Defining(envs, environment, lexeme) # {}
                nearest == Nearest(envs, environment, lexeme)
            IN  /\ ctrl'.ok = defined
                /\ (ctrl'.mode = "get" /\ defined) =>
                        ctrl'.cell = envs[nearest].values[lexeme]
                /\ ctrl'.mode = "get" => envs' = envs
                /\ (ctrl'.mode = "assign" /\ defined) =>
                        /\ envs'[nearest].values[lexeme] = ctrl'.cell
                        /\ \A k \in 1..Len(envs) :
                                /\ envs'[k].enclosing = envs[k].enclosing
                                /\ DOMAIN envs'[k].values = DOMAIN envs[k].values
                                /\ \A n \in DOMAIN envs[k].values :
                                        (k # nearest \/ n # lexeme) =>
                                            envs'[k].values[n] = envs[k].values[n]
                /\ (ctrl'.mode = "assign" /\ ~defined) => envs' = envs
                /\ Len(envs') = Len(envs)]_vars

\* an assignment has rebound a name that the innermost environment does not
\* define and two outer ones do: the nearer one changed, the outer one kept
\* its value
C25_Witness ==
    /\ pc = "environment" /\ ctrl.mode = "assign" /\ ctrl.ok /\ ctrl.name = "a"
    /\ Len(envs) = 3 /\ environment = 3
    /\ "a" \notin DOMAIN envs[3].values
    /\ "a" \in DOMAIN envs[2].values /\ envs[2].values["a"] = 2
    /\ "a" \in DOMAIN envs[1].values /\ envs[1].values["a"] = 1

\* line and position of the i-th token of a scan
Place(T, i) == <<T[i].line, T[i].position>>

\* C26: the tokens that a scan has added so far, Eof aside, differ pairwise
\* in (line, position), so two identifier or `this` tokens of one source are
\* never equal, also with the same lexeme on the same line, and neither are
\* the Variable, Assign and This expressions built from them, which are the
\* keys of the depth map.
C26_TokensDifferInPlace ==
    pc \in {"scan", "scanned"} =>
        \A i, j \in 1..Len(ctrl.tokens) :
            (i < j /\ ctrl.tokens[i].token_type # "Eof" /\ ctrl.tokens[j].token_type # "Eof") =>
                /\ Place(ctrl.tokens, i) # Place(ctrl.tokens, j)
                /\ ctrl.tokens[i] # ctrl.tokens[j]

\* the scan of `this.a=this.a` is over: two `this` and two `a` on one line
C26_Witness ==
    /\ pc = "scanned"
    /\ \E i, j \in 1..Len(tokens) :
            /\ i < j /\ tokens[i].token_type = "This" /\ tokens[j].token_type = "This"
            /\ tokens[i].line = tokens[j].line
    /\ \E i, j \in 1..Len(tokens) :
            /\ i < j /\ tokens[i].token_type = "Identifier"
            /\ tokens[j].token_type = "Identifier"
            /\ tokens[i].lexeme = tokens[j].lexeme /\ tokens[i].line = tokens[j].line

\* C27: when the resolver has reported a static error (run() sets
\* *had_error only then), the interpreter evaluates nothing: nothing is
\* printed, and the environments and the objects stay what
\* Interpreter::new made.
C27_StaticErrorStopsRun ==
    (pc \in {"interpret", "done", "panicked"} /\ had_error) =>
        /\ output = <<>>
        /\ envs = <<[enclosing |-> 0, values |-> ("clock" :> 1)]>>
        /\ cells = <<NativeFunctionObj(0)>>

\* C28: a property assignment whose value reads a property of, or calls a
\* method on, the instance that is assigned to sets the field and yields
\* the value: `a.n = a.n + 1` after `a.n = 1` leaves 2 in a.n, and
\* `a.n = a.one()` leaves 1; the run does not die on the instance that the
\* assignment holds.
C28_SetReadsItsInstance ==
    Over =>
        /\ Runs(SrcSetReadsSelf) => pc = "done" /\ output = <<"2">>
        /\ Runs(SrcSetCallsSelf) => pc = "done" /\ output = <<"1">>

\* how far up the grammar a parsing function is: where a function calls
\* another before a token has been consumed since it was called itself,
\* the other one is further down
Rank ==
    [declaration |-> 15, class_declaration |-> 14, function |-> 14, var_declaration |-> 14,
     statement |-> 14, block |-> 16, expression_statement |-> 13, expression |-> 12,
     assignment |-> 11, or |-> 10, and |-> 9, equality |-> 8, comparison |-> 7,
     term |-> 6, factor |-> 5, unary |-> 4, call |-> 3, primary |-> 2]

\* the loops of parse() and of block() are about to take their next turn
AtLoop == kont # <<>> /\ Top.kind \in {"parse", "block"}

\* a number that every step of the parser makes smaller: first the tokens
\* left, and then, for one cursor, a success that was returned (it may be
\* followed by calls), the next turn of a loop, a call (by rank), an error
\* on its way up (by the frames left), and the end of the loop at Eof
Variant ==
    (Len(tokens) - current) * 1000
    + (CASE ctrl.mode = "parse" -> 200 + Rank[ctrl.fn]
         [] ctrl.mode = "parsed" /\ ctrl.ok -> 400 + Len(kont)
         [] ctrl.mode = "parsed" /\ AtLoop /\ ~is_at_end(tokens, Parser) -> 400 + Len(kont)
         [] ctrl.mode = "parsed" -> 100 + Len(kont)
         [] OTHER -> IF is_at_end(tokens, Parser) THEN 0 ELSE 300)

\* C29: parse() ends on every token sequence that ends with Eof.  The cursor
\* stays on a token, Eof at the furthest, and never moves back; a
\* synchronize() that is not at Eof moves it forward; and every step of the
\* parser, the turns of the loops of parse(), block() and class_declaration
\* included, makes the variant smaller, which is a natural number: an
\* iteration that neither consumed a token nor ended its loop would have to
\* leave it as it was.
C29_ParseTerminates ==
    /\ [](Parsing => current < Len(tokens) /\ Variant >= 0)
    /\ [][Parsing => current' >= current]_vars
    /\ [][(Synchronizing /\ ~is_at_end(tokens, Parser)) => current' > current]_vars
    /\ [][(Parsing /\ Parsing') => Variant' < Variant]_vars

\* parse() has returned for three words of which none begins a statement
\* and the parser has synchronized at least twice
C29_Witness ==
    /\ pc = "resolve" /\ Len(tokens) = MaxTokens + 1
    /\ Len(reported) >= 2 /\ stmts = <<>>
    /\ current = Len(tokens) - 1

\* C30: recording and looking up the depth of an expression returns for
\* every key: the key of every assignment that is evaluated has a hash, and
\* the programs that assign nil to a local and to a global variable run to
\* their end and print nil.
C30_HashingTerminates ==
    /\ Returned("Assign") => HashEnds(Top.e)
    /\ Over =>
        /\ Runs(SrcAssignNil) => pc = "done" /\ output = <<"nil">>
        /\ Runs(SrcAssignNilGlobal) => pc = "done" /\ output = <<"1", "nil">>
        /\ Runs(SrcAssignNilOnly) => pc = "done" /\ output = <<"nil">>
====
